---- MODULE Spec2Model ----
(***************************************************************************)
(* Model of azure-secrets-checker: the credential reconciliation and       *)
(* threshold filter of AzureService, and the Scheduler that runs the       *)
(* check pipeline on cron ticks and on manual requests.                    *)
(*                                                                         *)
(* Instants are milliseconds relative to an arbitrary epoch, as dayjs and  *)
(* Date hold them.  dayjs(endDateTime) is modelled by the instant the ISO  *)
(* string denotes; diff(now, 'day', true) by the exact quotient of the     *)
(* millisecond difference and the length of a day, which is what dayjs     *)
(* computes when both instants have the same UTC offset.                   *)
(***************************************************************************)
EXTENDS Integers, Sequences, FiniteSets, TLC

VARIABLES
    \* --- data pipeline (SpecCred, SpecPipeline) ---
    clk,            \* the wall clock as the synchronous code reads it
    credentials,    \* input of processPasswordCredentials / processKeyCredentials
    source,         \* the source tag passed with it
    secretInfos,    \* SecretInfo[] built from credentials
    certInfos,      \* CertificateInfo[] built from credentials
    spList,         \* ServicePrincipal[] returned by getServicePrincipals
    appList,        \* Application[] returned by getApplications
    views,          \* result of getAllApplicationsWithSecrets
    days,           \* thresholds handed to getApplicationsExpiringInDays
    filtered,       \* result of getApplicationsExpiringInDays
    phase,          \* position in the data pipeline
    \* --- scheduler (Spec) ---
    time,           \* the wall clock, in ms
    accessToken,    \* AzureService.accessToken: <<>> (undefined) or <<token>>
    tokenExpiry,    \* AzureService.tokenExpiry
    directory,      \* what the Graph API serves: the pages of the two collections
    cronState,      \* the node-cron registration of the daily check
    tasks,          \* the invocations of checkSecretExpirations and testServices in flight
    starts,         \* how many invocations have been started
    \* --- MailService (SpecMail) ---
    mailEnv,        \* process.env as the MailService constructor reads it
    mailService,    \* the MailService object: config, smtpTransporter, acsClient
    mailCall,       \* the call of sendNotification in progress or last settled
    operation,      \* the send operation of the cloud-email service
    \* --- AzureService token cache and paged listings (SpecFetch) ---
    fetch,          \* one call of getAllApplicationsWithSecrets up to its merge
    idp,            \* the token responses the identity provider has given
    \* --- process startup and shutdown (SpecStartup) ---
    env,            \* process.env as the constructors of the services read it
    proc,           \* the process of index.ts: start(), the server, the cron driver
    \* --- following the next-page links (SpecPaging) ---
    chain,          \* the @odata.nextLink of every page URL of a collection
    walk,           \* one call of getAllPagedResults on it
    \* --- dashboard (SpecDashboard) ---
    dashboard       \* AppTable and AppDetailsModal over one application

schedVars == <<time, accessToken, tokenExpiry, directory, cronState, tasks, starts>>

dataVars == <<clk, credentials, source, secretInfos, certInfos,
              spList, appList, views, days, filtered, phase>>

mailVars == <<mailEnv, mailService, mailCall, operation>>

fetchVars == <<fetch, idp>>

startVars == <<env, proc>>

pagingVars == <<chain, walk>>

uiVars == <<dashboard>>

-----------------------------------------------------------------------------
(* Bounds of the model *)

MaxCreds == 2       \* credentials per processed array in SpecCred
MaxRecords == 2     \* records per listing in SpecPipeline
MaxDrift == 1       \* milliseconds the clock may advance during one synchronous pass
MaxStarts == 2      \* invocations of checkSecretExpirations / testServices in Spec
MaxTicks == 1       \* times the clock of Spec advances
MaxItems == 1       \* notifications handed to sendNotification in SpecMail
MaxFetchTicks == 2  \* times the clock of SpecFetch advances
MaxCronTicks == 2   \* 09:00 ticks of the cron driver in SpecStartup
MaxPages == 3       \* page URLs of the collection in SpecPaging
MaxKept == 4        \* pages of which SpecPaging keeps the results apart

(* Program constants *)

MsPerDay == 86400000    \* the 'day' unit of dayjs diff
SafetyMarginMs == 60000 \* subtracted from the token's lifetime
MsPerSecond == 1000     \* expires_in is in seconds

Hour == MsPerDay \div 24

-----------------------------------------------------------------------------
(* Helpers over sequences *)

Range(s) == {s[i] : i \in 1..Len(s)}

SeqsUpTo(S, n) == UNION {[1..k -> S] : k \in 0..n}

Perms(s) ==
    LET n == Len(s)
        Bij == {f \in [1..n -> 1..n] : \A i, j \in 1..n : f[i] = f[j] => i = j}
    IN {[i \in 1..n |-> s[f[i]]] : f \in Bij}

\* Array.prototype.filter
RECURSIVE FilterSeq(_, _)
FilterSeq(s, keep) ==
    IF s = <<>> THEN <<>>
    ELSE IF keep[Head(s)] THEN <<Head(s)>> \o FilterSeq(Tail(s), keep)
         ELSE FilterSeq(Tail(s), keep)

\* the concatenation of the pages of a collection
RECURSIVE Flatten(_)
Flatten(pages) == IF pages = <<>> THEN <<>> ELSE Head(pages) \o Flatten(Tail(pages))

-----------------------------------------------------------------------------
(* The clock.  The n-th read of the clock during one synchronous pass       *)
(* returns c.now, or c.now + c.drift from read c.tickAt on (tickAt = 0:     *)
(* the clock does not advance during the pass).                            *)

ClockAt(c, n) == IF c.tickAt > 0 /\ n >= c.tickAt THEN c.now + c.drift ELSE c.now

Frozen(c) == c.tickAt = 0

-----------------------------------------------------------------------------
(* AzureService: days until expiration and credential descriptors *)

\* Math.ceil(x / d) for d > 0
MathCeil(x, d) == -((-x) \div d)

\* calculateDaysUntilExpiration(endDateTime), t being what dayjs() returns
\* (Trunc: diff without the float flag, which truncates toward zero)
calculateDaysUntilExpirationTrunc(endDateTime, t) ==
    LET x == endDateTime - t
    IN IF x >= 0 THEN x \div MsPerDay ELSE -((-x) \div MsPerDay)

calculateDaysUntilExpiration(endDateTime, t) ==
    MathCeil(endDateTime - t, MsPerDay)

\* processPasswordCredentials: two clock reads per credential, the first for
\* daysUntilExpiration and the second for isExpired; `base` clock reads
\* happened before in the same pass.
processPasswordCredentials(creds, src, c, base) ==
    [i \in 1..Len(creds) |->
        [keyId |-> creds[i].keyId,
         displayName |-> creds[i].displayName,
         endDateTime |-> creds[i].endDateTime,
         daysUntilExpiration |->
            calculateDaysUntilExpiration(creds[i].endDateTime, ClockAt(c, base + 2*i - 1)),
         isExpired |->
            calculateDaysUntilExpiration(creds[i].endDateTime, ClockAt(c, base + 2*i)) <= 0,
         source |-> src]]

\* processKeyCredentials: the same, plus type and usage
processKeyCredentials(creds, src, c, base) ==
    [i \in 1..Len(creds) |->
        [keyId |-> creds[i].keyId,
         displayName |-> creds[i].displayName,
         endDateTime |-> creds[i].endDateTime,
         daysUntilExpiration |->
            calculateDaysUntilExpiration(creds[i].endDateTime, ClockAt(c, base + 2*i - 1)),
         isExpired |->
            calculateDaysUntilExpiration(creds[i].endDateTime, ClockAt(c, base + 2*i)) <= 0,
         type |-> creds[i].type,
         usage |-> creds[i].usage,
         source |-> src]]

-----------------------------------------------------------------------------
(* AzureService.getAllApplicationsWithSecrets: the merge into appMap.       *)
(* appMap, a JavaScript Map, is the sequence of its values in insertion     *)
(* order; its keys are the values' appId.                                   *)

\* the key a record is filed under
MapKeyObjectId(rec) == rec.id

MapKey(rec) == rec.appId

MapHas(appMap, key) == \E k \in 1..Len(appMap) : appMap[k].key = key

MapIndex(appMap, key) == CHOOSE k \in 1..Len(appMap) : appMap[k].key = key

NewEntry(rec) ==
    [key |-> MapKey(rec),
     value |-> [id |-> rec.id, appId |-> rec.appId, displayName |-> rec.displayName,
                secrets |-> <<>>, certificates |-> <<>>]]

\* if (!appMap.has(rec.appId)) appMap.set(rec.appId, {...})
EnsureEntryOverwrite(appMap, rec) ==
    IF MapHas(appMap, MapKey(rec))
    THEN [appMap EXCEPT ![MapIndex(appMap, MapKey(rec))].value.id = rec.id,
                        ![MapIndex(appMap, MapKey(rec))].value.displayName = rec.displayName]
    ELSE Append(appMap, NewEntry(rec))

EnsureEntry(appMap, rec) ==
    IF MapHas(appMap, MapKey(rec)) THEN appMap ELSE Append(appMap, NewEntry(rec))

\* list.push(...items)
PushAllReplace(list, items) == items

PushAll(list, items) == list \o items

\* the body of one forEach callback; acc = [appMap, reads]
\* (Dedup: a merge that skips a credential whose key id the view holds already)
MergeRecordDedup(acc, rec, src, c) ==
    LET m == EnsureEntry(acc.appMap, rec)
        k == MapIndex(m, MapKey(rec))
        secs == processPasswordCredentials(rec.passwordCredentials, src, c, acc.reads)
        r1 == acc.reads + 2 * Len(rec.passwordCredentials)
        certs == processKeyCredentials(rec.keyCredentials, src, c, r1)
        held(list) == {list[i].keyId : i \in 1..Len(list)}
        fresh(list, items) == SelectSeq(items, LAMBDA x : x.keyId \notin held(list))
    IN [appMap |-> [m EXCEPT ![k].value.secrets = PushAll(@, fresh(@, secs)),
                             ![k].value.certificates = PushAll(@, fresh(@, certs))],
        reads |-> r1 + 2 * Len(rec.keyCredentials)]

MergeRecord(acc, rec, src, c) ==
    LET m == EnsureEntry(acc.appMap, rec)
        k == MapIndex(m, MapKey(rec))
        secs == processPasswordCredentials(rec.passwordCredentials, src, c, acc.reads)
        r1 == acc.reads + 2 * Len(rec.passwordCredentials)
        certs == processKeyCredentials(rec.keyCredentials, src, c, r1)
    IN [appMap |-> [m EXCEPT ![k].value.secrets = PushAll(@, secs),
                             ![k].value.certificates = PushAll(@, certs)],
        reads |-> r1 + 2 * Len(rec.keyCredentials)]

RECURSIVE ForEachRecord(_, _, _, _)
ForEachRecord(records, src, acc, c) ==
    IF records = <<>> THEN acc
    ELSE ForEachRecord(Tail(records), src, MergeRecord(acc, Head(records), src, c), c)

\* Array.from(appMap.values())
MapValues(appMap) == [k \in 1..Len(appMap) |-> appMap[k].value]

\* the synchronous part of getAllApplicationsWithSecrets, after Promise.all
Reconcile(servicePrincipals, applications, c) ==
    LET afterSp == ForEachRecord(servicePrincipals, "servicePrincipal",
                                 [appMap |-> <<>>, reads |-> 0], c)
        afterApp == ForEachRecord(applications, "application", afterSp, c)
    IN MapValues(afterApp.appMap)

-----------------------------------------------------------------------------
(* AzureService.getApplicationsExpiringInDays *)

\* days.includes(cred.daysUntilExpiration) || cred.isExpired
MatchesIgnoringExpired(cred, ds) == cred.daysUntilExpiration \in Range(ds)

Matches(cred, ds) == cred.daysUntilExpiration \in Range(ds) \/ cred.isExpired

KeepMatching(list, ds) ==
    FilterSeq(list, [x \in Range(list) |-> Matches(x, ds)])

\* allApps.filter(...).map(...)
getApplicationsExpiringInDays(allApps, ds) ==
    LET kept == FilterSeq(allApps,
                    [app \in Range(allApps) |->
                        Len(KeepMatching(app.secrets, ds)) > 0
                        \/ Len(KeepMatching(app.certificates, ds)) > 0])
    IN [k \in 1..Len(kept) |->
            [kept[k] EXCEPT !.secrets = KeepMatching(kept[k].secrets, ds),
                            !.certificates = KeepMatching(kept[k].certificates, ds)]]

\* what the map callback leaves in the object it was given: it reads app and
\* builds a new object ({...app, secrets: ..., certificates: ...}); the
\* in-place variant assigns the filtered arrays to app itself
AppAfterMapInPlace(app, ds) ==
    [app EXCEPT !.secrets = KeepMatching(app.secrets, ds),
                !.certificates = KeepMatching(app.certificates, ds)]

AppAfterMap(app, ds) == app

\* the objects of allApps once getApplicationsExpiringInDays has returned
allAppsAfterFilter(allApps, ds) ==
    [k \in 1..Len(allApps) |->
        IF Len(KeepMatching(allApps[k].secrets, ds)) > 0
           \/ Len(KeepMatching(allApps[k].certificates, ds)) > 0
        THEN AppAfterMap(allApps[k], ds)
        ELSE allApps[k]]

-----------------------------------------------------------------------------
(* Inputs of the data specifications *)

Sources == {"servicePrincipal", "application"}

\* expiration instants around the epoch: 12 h and 1 ms on either side of it,
\* whole days before and after, and 5 days ahead
EndTimes ==
    {0, 1, -1, 12 * Hour, -12 * Hour, MsPerDay, -MsPerDay, -36 * Hour,
     -2 * MsPerDay, 5 * MsPerDay}

PasswordCredentialsIn ==
    {[keyId |-> "k", displayName |-> "secret", endDateTime |-> e] : e \in EndTimes}

KeyCredentialsIn ==
    {[keyId |-> "k", displayName |-> "cert", endDateTime |-> e,
      type |-> "AsymmetricX509Cert", usage |-> "Verify"] : e \in EndTimes}

Clocks(maxReads) == [now : {0}, tickAt : 0..maxReads, drift : 1..MaxDrift]

\* credentials of the records of SpecPipeline
s5 == [keyId |-> "k1", displayName |-> "five", endDateTime |-> 5 * MsPerDay]

sExpired == [keyId |-> "k2", displayName |-> "old", endDateTime |-> -3 * MsPerDay]

sEdge == [keyId |-> "k3", displayName |-> "edge", endDateTime |-> 1]

c20 == [keyId |-> "c1", displayName |-> "far", endDateTime |-> 20 * MsPerDay,
        type |-> "AsymmetricX509Cert", usage |-> "Verify"]

c0 == [keyId |-> "c2", displayName |-> "due", endDateTime |-> 0,
       type |-> "AsymmetricX509Cert", usage |-> "Sign"]

SpCredentialPairs ==
    {<< <<s5>>, <<>> >>, << <<>>, <<c20>> >>, << <<sExpired, sEdge>>, <<c0>> >>}

AppCredentialPairs == {<< <<s5>>, <<>> >>, << <<>>, <<>> >>}

ServicePrincipalsIn ==
    {[id |-> idn[1], appId |-> "X", displayName |-> idn[2],
      passwordCredentials |-> p[1], keyCredentials |-> p[2]] :
        idn \in {<<"sp1", "A">>, <<"sp2", "B">>}, p \in SpCredentialPairs}
    \cup {[id |-> "sp3", appId |-> "Y", displayName |-> "D",
           passwordCredentials |-> <<s5>>, keyCredentials |-> <<>>]}

ApplicationsIn ==
    {[id |-> "app1", appId |-> "X", displayName |-> "C",
      passwordCredentials |-> p[1], keyCredentials |-> p[2]] : p \in AppCredentialPairs}
    \cup {[id |-> "app2", appId |-> "Z", displayName |-> "E",
           passwordCredentials |-> <<s5>>, keyCredentials |-> <<>>]}

\* Scheduler.notificationThresholds
DefaultThresholds == <<15, 10, 5, 4, 3, 2, 1, 0>>

ThresholdsIn == {<<>>, <<5>>, <<0>>, <<-3>>, DefaultThresholds}

\* the scheduler's variables where the data specifications leave them
SchedulerUnused ==
    /\ time = 0
    /\ accessToken = <<>>
    /\ tokenExpiry = 0
    /\ directory = [servicePrincipals |-> <<>>, applications |-> <<>>]
    /\ cronState = "unregistered"
    /\ tasks = <<>>
    /\ starts = 0

\* no MailService object yet
NoMailService ==
    [status |-> "unconstructed", error |-> "none",
     config |-> [smtp |-> FALSE, acs |-> FALSE],
     smtpTransporter |-> FALSE, acsClient |-> FALSE]

\* no call of sendNotification yet
NoMailCall ==
    [pc |-> "idle", items |-> <<>>, smtpCalls |-> 0, acsCalls |-> 0, error |-> "none"]

\* the mail variables where the other specifications leave them
MailUnused ==
    /\ mailEnv = {}
    /\ mailService = NoMailService
    /\ mailCall = NoMailCall
    /\ operation = "none"

\* the variables of SpecFetch where the other specifications leave them
FetchUnused ==
    /\ fetch = [pc |-> "unused"]
    /\ idp = <<>>

\* the variables of SpecStartup where the other specifications leave them
StartUnused ==
    /\ env = {}
    /\ proc = [pc |-> "unused"]

\* the variables of SpecPaging where the other specifications leave them
PagingUnused ==
    /\ chain = <<>>
    /\ walk = [pc |-> "unused"]

\* the variable of SpecDashboard where the other specifications leave it
UiUnused == dashboard = [pc |-> "unused"]

\* the data variables where Spec leaves them
DataUnused ==
    /\ clk = [now |-> 0, tickAt |-> 0, drift |-> 1]
    /\ credentials = <<>>
    /\ source = "servicePrincipal"
    /\ secretInfos = <<>>
    /\ certInfos = <<>>
    /\ spList = <<>>
    /\ appList = <<>>
    /\ views = <<>>
    /\ days = <<>>
    /\ filtered = <<>>
    /\ phase = "unused"

-----------------------------------------------------------------------------
(* SpecCred: one call of processPasswordCredentials or                      *)
(* processKeyCredentials on a drawn credential array, under a drawn clock.   *)

InitCred ==
    /\ credentials \in (SeqsUpTo(PasswordCredentialsIn, MaxCreds)
                        \cup SeqsUpTo(KeyCredentialsIn, MaxCreds)) \ {<<>>}
    /\ source \in Sources
    /\ clk \in Clocks(2 * MaxCreds)
    /\ secretInfos = <<>>
    /\ certInfos = <<>>
    /\ spList = <<>>
    /\ appList = <<>>
    /\ views = <<>>
    /\ days = <<>>
    /\ filtered = <<>>
    /\ phase = "input"
    /\ SchedulerUnused
    /\ MailUnused
    /\ FetchUnused
    /\ StartUnused
    /\ PagingUnused
    /\ UiUnused

ProcessPassword ==
    /\ phase = "input"
    /\ Range(credentials) \subseteq PasswordCredentialsIn
    /\ secretInfos' = processPasswordCredentials(credentials, source, clk, 0)
    /\ phase' = "processed"
    /\ UNCHANGED <<clk, credentials, source, certInfos, spList, appList, views,
                   days, filtered>>
    /\ UNCHANGED <<schedVars, mailVars, fetchVars, startVars, pagingVars, uiVars>>

ProcessKey ==
    /\ phase = "input"
    /\ Range(credentials) \subseteq KeyCredentialsIn
    /\ certInfos' = processKeyCredentials(credentials, source, clk, 0)
    /\ phase' = "processed"
    /\ UNCHANGED <<clk, credentials, source, secretInfos, spList, appList, views,
                   days, filtered>>
    /\ UNCHANGED <<schedVars, mailVars, fetchVars, startVars, pagingVars, uiVars>>

NextCred == ProcessPassword \/ ProcessKey

-----------------------------------------------------------------------------
(* SpecPipeline: getAllApplicationsWithSecrets on drawn listings, then       *)
(* getApplicationsExpiringInDays on its result with drawn thresholds.        *)

InitPipeline ==
    /\ spList \in SeqsUpTo(ServicePrincipalsIn, MaxRecords)
    /\ appList \in SeqsUpTo(ApplicationsIn, MaxRecords)
    /\ clk \in [now : {0}, tickAt : {0, 2}, drift : {MaxDrift}]
    /\ views = <<>>
    /\ days = <<>>
    /\ filtered = <<>>
    /\ credentials = <<>>
    /\ source = "servicePrincipal"
    /\ secretInfos = <<>>
    /\ certInfos = <<>>
    /\ phase = "input"
    /\ SchedulerUnused
    /\ MailUnused
    /\ FetchUnused
    /\ StartUnused
    /\ PagingUnused
    /\ UiUnused

DoReconcile ==
    /\ phase = "input"
    /\ views' = Reconcile(spList, appList, clk)
    /\ phase' = "reconciled"
    /\ UNCHANGED <<clk, credentials, source, secretInfos, certInfos, spList, appList,
                   days, filtered>>
    /\ UNCHANGED <<schedVars, mailVars, fetchVars, startVars, pagingVars, uiVars>>

DoFilter ==
    /\ phase = "reconciled"
    /\ \E ds \in ThresholdsIn :
        /\ days' = ds
        /\ filtered' = getApplicationsExpiringInDays(views, ds)
        /\ views' = allAppsAfterFilter(views, ds)
    /\ phase' = "filtered"
    /\ UNCHANGED <<clk, credentials, source, secretInfos, certInfos, spList, appList>>
    /\ UNCHANGED <<schedVars, mailVars, fetchVars, startVars, pagingVars, uiVars>>

NextPipeline == DoReconcile \/ DoFilter

vars == <<dataVars, schedVars, mailVars, fetchVars, startVars, pagingVars, uiVars>>

SpecCred == InitCred /\ [][NextCred]_vars

SpecPipeline == InitPipeline /\ [][NextPipeline]_vars

-----------------------------------------------------------------------------
(* Properties of reconciliation (SpecPipeline) *)

Reconciled == phase \in {"reconciled", "filtered"}

AllRecords == spList \o appList

AppIdsIn == {AllRecords[i].appId : i \in 1..Len(AllRecords)}

RECURSIVE CredentialCount(_, _, _)
CredentialCount(records, appId, password) ==
    IF records = <<>> THEN 0
    ELSE (IF Head(records).appId # appId THEN 0
          ELSE IF password THEN Len(Head(records).passwordCredentials)
          ELSE Len(Head(records).keyCredentials))
         + CredentialCount(Tail(records), appId, password)

KeyIdsIn(appId, password) ==
    UNION {{c.keyId : c \in Range(IF password THEN AllRecords[i].passwordCredentials
                                  ELSE AllRecords[i].keyCredentials)} :
           i \in {j \in 1..Len(AllRecords) : AllRecords[j].appId = appId}}

\* C5: reconciliation yields exactly one view per distinct application id of
\* the two listings; the view of an id holds the credentials of every record
\* with that id (as many secrets and certificates as those records carry, with
\* their key ids).
C5_OneViewPerAppId ==
    Reconciled =>
        /\ \A i, j \in 1..Len(views) : views[i].appId = views[j].appId => i = j
        /\ {views[i].appId : i \in 1..Len(views)} = AppIdsIn
        /\ Len(views) = Cardinality(AppIdsIn)
        /\ \A i \in 1..Len(views) :
            /\ Len(views[i].secrets) = CredentialCount(AllRecords, views[i].appId, TRUE)
            /\ Len(views[i].certificates) = CredentialCount(AllRecords, views[i].appId, FALSE)
            /\ {c.keyId : c \in Range(views[i].secrets)} = KeyIdsIn(views[i].appId, TRUE)
            /\ {c.keyId : c \in Range(views[i].certificates)} = KeyIdsIn(views[i].appId, FALSE)

\* an id met twice among the service principals and once more among the
\* applications has been merged into a single view of 1 secret + 1 certificate
C5_Witness ==
    /\ Reconciled
    /\ Len(spList) = 2 /\ Len(appList) = 1
    /\ spList[1].appId = "X" /\ spList[2].appId = "X" /\ appList[1].appId = "X"
    /\ spList[1].id # spList[2].id
    /\ Len(views) = 1
    /\ Len(views[1].secrets) = 1 /\ Len(views[1].certificates) = 1

ViewAsSet(v) ==
    [id |-> v.id, appId |-> v.appId, displayName |-> v.displayName,
     secrets |-> Range(v.secrets), certificates |-> Range(v.certificates)]

ViewSet(vs) == {ViewAsSet(vs[i]) : i \in 1..Len(vs)}

CredentialsOnly(vs) ==
    {[appId |-> vs[i].appId, secrets |-> Range(vs[i].secrets),
      certificates |-> Range(vs[i].certificates)] : i \in 1..Len(vs)}

\* records of one listing that share an application id have the same object
\* id and display name
AgreeOnIdentity(records) ==
    \A i, j \in 1..Len(records) :
        records[i].appId = records[j].appId =>
            /\ records[i].id = records[j].id
            /\ records[i].displayName = records[j].displayName

\* C6 as stated: at one instant, every permutation of the service-principal
\* list and of the application list reconciles to the same set of views
\* (identifier, application id, display name, set of credentials).
C6_PermutationInvariant ==
    (phase = "reconciled" /\ Frozen(clk)) =>
        \A p \in Perms(spList), q \in Perms(appList) :
            ViewSet(Reconcile(p, q, clk)) = ViewSet(views)

\* C6 amended: at one instant, every permutation of the two lists reconciles
\* to views with the same application ids and the same sets of credentials;
\* the views' identifiers and display names are the same too when the records
\* of each listing that share an application id agree on object id and
\* display name.
C6_PermutationInvariantAmended ==
    (phase = "reconciled" /\ Frozen(clk)) =>
        \A p \in Perms(spList), q \in Perms(appList) :
            /\ CredentialsOnly(Reconcile(p, q, clk)) = CredentialsOnly(views)
            /\ (AgreeOnIdentity(spList) /\ AgreeOnIdentity(appList)) =>
                    ViewSet(Reconcile(p, q, clk)) = ViewSet(views)

\* two different service-principal records of one application, agreeing on
\* identity, and two different application records have been reconciled
C6_Witness ==
    /\ Reconciled /\ Frozen(clk)
    /\ Len(spList) = 2 /\ Len(appList) = 2
    /\ spList[1] # spList[2] /\ appList[1] # appList[2]
    /\ spList[1].appId = spList[2].appId
    /\ AgreeOnIdentity(spList) /\ AgreeOnIdentity(appList)
    /\ Len(views) < 4

FirstPos(appId) ==
    CHOOSE i \in 1..Len(AllRecords) :
        /\ AllRecords[i].appId = appId
        /\ \A j \in 1..(i - 1) : AllRecords[j].appId # appId

\* C7: the views are in the order in which their application ids first occur
\* in the service-principal list followed by the application list, and a
\* view's identifier and display name are those of the first record with its
\* application id in that order: a service principal's whenever one has that
\* application id.
C7_InsertionOrderSpFirst ==
    Reconciled =>
        /\ \A i, j \in 1..Len(views) :
                i < j => FirstPos(views[i].appId) < FirstPos(views[j].appId)
        /\ \A i \in 1..Len(views) :
            /\ views[i].id = AllRecords[FirstPos(views[i].appId)].id
            /\ views[i].displayName = AllRecords[FirstPos(views[i].appId)].displayName
            /\ (\E k \in 1..Len(spList) : spList[k].appId = views[i].appId)
                    => FirstPos(views[i].appId) <= Len(spList)

\* an application id of both listings, after another one: its view comes
\* second and carries the service principal's identity, not the application's
C7_Witness ==
    /\ Reconciled
    /\ Len(spList) = 2 /\ Len(appList) = 2
    /\ spList[1].appId = "Y" /\ spList[2].appId = "X"
    /\ appList[1].appId = "Z" /\ appList[2].appId = "X"
    /\ Len(views) = 3
    /\ views[2].appId = "X" /\ views[2].id = spList[2].id
    /\ views[2].displayName # appList[2].displayName
    /\ views[3].appId = "Z"

\* what a descriptor takes over from its credential, and its source tag
Origin(list) ==
    [k \in 1..Len(list) |->
        [keyId |-> list[k].keyId, displayName |-> list[k].displayName,
         endDateTime |-> list[k].endDateTime, source |-> list[k].source]]

\* the credentials under `field` of the records with application id `id`,
\* in the order of the records, tagged with src
RECURSIVE CredentialsOf(_, _, _, _)
CredentialsOf(records, id, field, src) ==
    IF records = <<>> THEN <<>>
    ELSE LET rec == Head(records)
             own == [k \in 1..Len(rec[field]) |->
                        [keyId |-> rec[field][k].keyId,
                         displayName |-> rec[field][k].displayName,
                         endDateTime |-> rec[field][k].endDateTime,
                         source |-> src]]
         IN (IF rec.appId = id THEN own ELSE <<>>)
            \o CredentialsOf(Tail(records), id, field, src)

\* C28: reconciliation neither loses nor deduplicates credentials.  The
\* secret list of the view of an application id is the concatenation of the
\* password credentials of the service-principal records with that id, in
\* input order, followed by those of the application records with that id,
\* each tagged with its source; likewise the certificate list with the key
\* credentials.  A key id held by both collections is in the view twice.
C28_NothingLostOrMerged ==
    Reconciled =>
        \A i \in 1..Len(views) :
            /\ Origin(views[i].secrets) =
                    CredentialsOf(spList, views[i].appId, "passwordCredentials",
                                  "servicePrincipal")
                    \o CredentialsOf(appList, views[i].appId, "passwordCredentials",
                                     "application")
            /\ Origin(views[i].certificates) =
                    CredentialsOf(spList, views[i].appId, "keyCredentials",
                                  "servicePrincipal")
                    \o CredentialsOf(appList, views[i].appId, "keyCredentials",
                                     "application")

\* a secret whose key id both collections hold is in the view twice, first
\* as found on the service principal, then as found on the application
C28_Witness ==
    /\ Reconciled
    /\ \E i \in 1..Len(views) :
        \E a, b \in 1..Len(views[i].secrets) :
            /\ a < b
            /\ views[i].secrets[a].keyId = views[i].secrets[b].keyId
            /\ views[i].secrets[a].source = "servicePrincipal"
            /\ views[i].secrets[b].source = "application"

-----------------------------------------------------------------------------
(* Properties of the credential descriptors (SpecCred) *)

Processed == phase = "processed"

Descriptors == secretInfos \o certInfos

\* the instant of the clock read that gave descriptor i its daysUntilExpiration
ReadInstant(i) == ClockAt(clk, 2 * i - 1)

\* C8: in every descriptor built, isExpired = (daysUntilExpiration <= 0),
\* whatever the clock does between the reads that build it.
C8_ExpiredIffNoDaysLeft ==
    Processed =>
        \A i \in 1..Len(Descriptors) :
            Descriptors[i].isExpired = (Descriptors[i].daysUntilExpiration <= 0)

C24_OneTimestampPerRun ==
    Processed =>
        \A i, j \in 1..Len(Descriptors) :
            Descriptors[i].endDateTime = Descriptors[j].endDateTime =>
                /\ Descriptors[i].daysUntilExpiration = Descriptors[j].daysUntilExpiration
                /\ Descriptors[i].isExpired = Descriptors[j].isExpired

-----------------------------------------------------------------------------
(* Properties of the threshold filter (SpecPipeline) *)

Filtered == phase = "filtered"

Passes(cred) == cred.isExpired \/ \E k \in 1..Len(days) : days[k] = cred.daysUntilExpiration

SomePasses(v) ==
    \/ \E c \in Range(v.secrets) : Passes(c)
    \/ \E c \in Range(v.certificates) : Passes(c)

\* the view that a returned application was made from (application ids are
\* unique among the views)
ViewOf(f) == CHOOSE i \in 1..Len(views) : views[i].appId = f.appId

\* C10: a credential passes iff it is expired or its daysUntilExpiration is
\* one of the thresholds; the applications returned are exactly those with a
\* passing secret or certificate, each once, with exactly its passing secrets
\* and certificates in their original order and nothing else changed.  So
\* every expired credential is returned whatever the thresholds, and with no
\* thresholds only expired credentials are.
C10_FilterByThresholds ==
    Filtered =>
        /\ \A i \in 1..Len(views) :
                SomePasses(views[i]) <=>
                    \E k \in 1..Len(filtered) : filtered[k].appId = views[i].appId
        /\ \A j, k \in 1..Len(filtered) : filtered[j].appId = filtered[k].appId => j = k
        /\ \A k \in 1..Len(filtered) :
            /\ \E i \in 1..Len(views) : views[i].appId = filtered[k].appId
            /\ filtered[k].id = views[ViewOf(filtered[k])].id
            /\ filtered[k].displayName = views[ViewOf(filtered[k])].displayName
            /\ filtered[k].secrets =
                    SelectSeq(views[ViewOf(filtered[k])].secrets, Passes)
            /\ filtered[k].certificates =
                    SelectSeq(views[ViewOf(filtered[k])].certificates, Passes)
        /\ \A i \in 1..Len(views) : \A c \in Range(views[i].secrets) :
                c.isExpired =>
                    \E k \in 1..Len(filtered) : c \in Range(filtered[k].secrets)
        /\ days = <<>> =>
                \A k \in 1..Len(filtered) :
                    \A c \in Range(filtered[k].secrets) \cup Range(filtered[k].certificates) :
                        c.isExpired

\* the filter ran with thresholds {5} on a view holding, in this order, a
\* secret expired 3 days ago, a 1-day secret and a 5-day secret: it returned
\* the expired and the 5-day secret, in that order
C10_Witness ==
    /\ Filtered /\ Frozen(clk)
    /\ days = <<5>>
    /\ Len(views) = 1 /\ Len(filtered) = 1
    /\ Len(views[1].secrets) = 3
    /\ views[1].secrets[1].daysUntilExpiration = -3
    /\ views[1].secrets[2].daysUntilExpiration = 1
    /\ views[1].secrets[3].daysUntilExpiration = 5
    /\ filtered[1].secrets = <<views[1].secrets[1], views[1].secrets[3]>>

\* C11: the filter leaves the reconciled views it was given as they were:
\* after it has returned they are still what reconciliation produced, the
\* credentials that did not pass are missing only from the returned copies;
\* and when no credential passes, the result is the empty list.
C11_FilterLeavesViewsUnchanged ==
    Filtered =>
        /\ views = Reconcile(spList, appList, clk)
        /\ \A k \in 1..Len(filtered) :
            /\ Range(filtered[k].secrets) \subseteq Range(views[ViewOf(filtered[k])].secrets)
            /\ Range(filtered[k].certificates)
                    \subseteq Range(views[ViewOf(filtered[k])].certificates)
        /\ (\A i \in 1..Len(views) : ~SomePasses(views[i])) => filtered = <<>>

\* the filter ran with threshold {0} on two views: it dropped the view of Z
\* and the 1-day secret of X from its result, and both are still in the views
C11_Witness ==
    /\ Filtered /\ Frozen(clk)
    /\ days = <<0>>
    /\ Len(views) = 2 /\ Len(filtered) = 1
    /\ views[1].appId = "X" /\ views[2].appId = "Z"
    /\ Len(views[1].secrets) = 2 /\ Len(filtered[1].secrets) = 1
    /\ views[1].secrets[2].daysUntilExpiration = 1
    /\ Len(views[2].secrets) = 1

\* the filter ran on views of which no credential passes, and returned <<>>
C11_WitnessEmpty ==
    /\ Filtered /\ Len(views) > 0 /\ filtered = <<>>

-----------------------------------------------------------------------------
(* Spec: the Scheduler, its AzureService and the HTTP routes that call it.   *)
(* Every await on I/O (token exchange, page request, mail delivery, SMTP      *)
(* verify) is a point where other callbacks run; what lies between two such   *)
(* points is one action.                                                      *)

\* two invocations can be in flight at once; a slot is taken again once its
\* invocation has settled and its listings have ended
TaskIds == {1, 2}

Listings == {"sp", "app"}

Collection(L) == IF L = "sp" THEN "servicePrincipals" ELSE "applications"

TickMs == SafetyMarginMs

\* expires_in of the token response, in seconds
ExpiresInChoices == {120}

\* what the Graph API serves: page k of a collection links to page k + 1
Directories ==
    {[servicePrincipals |->
        << <<[id |-> "sp1", appId |-> "X", displayName |-> "A",
              passwordCredentials |-> <<>>, keyCredentials |-> <<c20>>]>> >>,
      applications |-> << <<>> >>],
     [servicePrincipals |->
        << <<[id |-> "sp1", appId |-> "X", displayName |-> "A",
              passwordCredentials |-> <<s5>>, keyCredentials |-> <<>>]>>,
           <<[id |-> "sp3", appId |-> "Y", displayName |-> "D",
              passwordCredentials |-> <<>>, keyCredentials |-> <<c20>>]>> >>,
      applications |->
        << <<[id |-> "app1", appId |-> "X", displayName |-> "C",
              passwordCredentials |-> <<sExpired>>, keyCredentials |-> <<>>]>> >>]}

\* the directories of Spec: the same collections, each served as one page
\* (paging is followed in SpecFetch)
SchedulerDirectories ==
    {[servicePrincipals |-> <<Flatten(d.servicePrincipals)>>,
      applications |-> <<Flatten(d.applications)>>] : d \in Directories}

\* the locals of one getAllPagedResults call (the token a request carries is
\* dead once the request is sent; SpecFetch follows it)
NewListing == [pc |-> "idle", page |-> 0, results |-> <<>>]

NewTask ==
    [kind |-> "none", pc |-> "idle", sp |-> NewListing, app |-> NewListing,
     error |-> "none", outcome |-> "pending", thrown |-> "none",
     response |-> "none", notified |-> 0, afterFailure |-> FALSE,
     thresholds |-> <<>>, flagged |-> -1, sends |-> 0, mailTest |-> "none"]

Init ==
    /\ time = 0
    /\ accessToken = <<>>
    /\ tokenExpiry = 0
    /\ directory \in SchedulerDirectories
    /\ cronState = "unregistered"
    /\ tasks = [t \in TaskIds |-> NewTask]
    /\ starts = 0
    /\ DataUnused
    /\ MailUnused
    /\ FetchUnused
    /\ StartUnused
    /\ PagingUnused
    /\ UiUnused

\* --- AzureService.getAccessToken / makeGraphRequest / getAllPagedResults ---

\* accessToken && tokenExpiry && new Date() < tokenExpiry
\* (Inclusive: with <= in place of <)
CacheValidInclusive == accessToken # <<>> /\ time <= tokenExpiry

CacheValid == accessToken # <<>> /\ time < tokenExpiry

\* makeGraphRequest(url of page k) up to its first pending request: the GET
\* of the page with the cached token, or the token exchange
RequestPage(l, k) ==
    IF CacheValid
    THEN [l EXCEPT !.pc = "get", !.page = k]
    ELSE [l EXCEPT !.pc = "exchange", !.page = k]

\* --- Scheduler ---

\* what the promise of checkSecretExpirations does when its body threw
checkSecretExpirationsCatchRethrow == "rejected"

checkSecretExpirationsCatch == "resolved"

\* what the promise of testServices does when its body threw
testServicesCatchSwallow == "resolved"

testServicesCatch == "rejected"

\* the reply of the route that awaited the promise
HttpResponse(kind, outcome) ==
    IF kind = "cron" THEN "none"
    ELSE IF outcome = "resolved" THEN "ok" ELSE "error"

\* a listing whose locals (page, accumulated results) are dead
Ended(l) == [NewListing EXCEPT !.pc = l.pc]

\* the promise settles; the locals of the function are dead from here on
\* (a listing that is still pending goes on in the background)
Settle(task, outcome, thrown) ==
    [task EXCEPT !.pc = "done", !.outcome = outcome, !.thrown = thrown,
                 !.response = HttpResponse(task.kind, outcome),
                 !.afterFailure = FALSE,
                 !.sp = IF @.pc \in {"done", "failed"} THEN Ended(@) ELSE @,
                 !.app = IF @.pc \in {"done", "failed"} THEN Ended(@) ELSE @]

\* (RetryDelivery: a catch block that sends the notification a second time)
OnErrorRetryDelivery(task, err) ==
    LET outcome == IF task.kind = "test" THEN testServicesCatch
                   ELSE checkSecretExpirationsCatch
    IN IF err = "delivery" /\ task.sends < 2
       THEN [task EXCEPT !.sends = @ + 1]
       ELSE Settle([task EXCEPT !.error = err], outcome,
                   IF outcome = "rejected" THEN err ELSE "none")

\* an error reaches the catch block of the task's function
OnError(task, err) ==
    LET outcome == IF task.kind = "test" THEN testServicesCatch
                   ELSE checkSecretExpirationsCatch
    IN Settle([task EXCEPT !.error = err], outcome,
              IF outcome = "rejected" THEN err ELSE "none")

Summaries(creds, type) ==
    [i \in 1..Len(creds) |->
        [type |-> type, displayName |-> creds[i].displayName,
         endDateTime |-> creds[i].endDateTime,
         daysUntilExpiration |-> creds[i].daysUntilExpiration,
         isExpired |-> creds[i].isExpired]]

\* appsWithExpiringSoon.map(...).filter(n => n.secrets.length > 0)
Notifications(apps) ==
    LET all == [k \in 1..Len(apps) |->
                    [appName |-> apps[k].displayName, appId |-> apps[k].appId,
                     secrets |-> Summaries(apps[k].secrets, "secret")
                                 \o Summaries(apps[k].certificates, "certificate")]]
    IN FilterSeq(all, [n \in Range(all) |-> Len(n.secrets) > 0])

\* the continuation of the task once Promise.all has resolved
\* (NotifyEmpty: without the two length tests before sendNotification)
AfterListingsNotifyEmpty(task) ==
    LET allApps == Reconcile(task.sp.results, task.app.results,
                             [now |-> time, tickAt |-> 0, drift |-> MaxDrift])
        apps == getApplicationsExpiringInDays(allApps, DefaultThresholds)
        ran == [task EXCEPT !.thresholds = DefaultThresholds, !.flagged = Len(apps)]
    IN IF task.kind = "test"
       THEN [task EXCEPT !.pc = "verify", !.sp = Ended(@), !.app = Ended(@)]
       ELSE [ran EXCEPT !.pc = "mail", !.notified = Len(Notifications(apps)),
                        !.sends = @ + 1,
                        !.sp = Ended(@), !.app = Ended(@)]

AfterListings(task) ==
    LET allApps == Reconcile(task.sp.results, task.app.results,
                             [now |-> time, tickAt |-> 0, drift |-> MaxDrift])
        apps == getApplicationsExpiringInDays(allApps, DefaultThresholds)
        ran == [task EXCEPT !.thresholds = DefaultThresholds, !.flagged = Len(apps)]
    IN IF task.kind = "test"
       THEN [task EXCEPT !.pc = "verify", !.sp = Ended(@), !.app = Ended(@)]
       ELSE IF Len(apps) = 0 THEN Settle(ran, "resolved", "none")
       ELSE IF Len(Notifications(apps)) > 0
            THEN [ran EXCEPT !.pc = "mail", !.notified = Len(Notifications(apps)),
                             !.sends = @ + 1,
                             !.sp = Ended(@), !.app = Ended(@)]
            ELSE Settle(ran, "resolved", "none")

\* (AllSettled: waiting for both listings and going on whatever became of them)
AfterListingStepAllSettled(task, err) ==
    IF task.pc # "listing" THEN task
    ELSE IF task.sp.pc \in {"done", "failed"} /\ task.app.pc \in {"done", "failed"}
    THEN AfterListings(task)
    ELSE task

\* a listing has settled: Promise.all settles when it failed or when both are done
AfterListingStep(task, err) ==
    IF task.pc # "listing" THEN task
    ELSE IF err # "none" THEN OnError(task, err)
    ELSE IF task.sp.pc = "done" /\ task.app.pc = "done" THEN AfterListings(task)
    ELSE task

Pending(l) == l.pc \in {"exchange", "get"}

Free(t) ==
    /\ tasks[t].pc \in {"idle", "done"}
    /\ ~Pending(tasks[t].sp) /\ ~Pending(tasks[t].app)

HasFreeTask == \E t \in TaskIds : Free(t)

FreeTask == CHOOSE t \in TaskIds : Free(t) /\ \A u \in TaskIds : u < t => ~Free(u)

CanStart == HasFreeTask /\ starts < MaxStarts

\* the function is entered: both listings are started before the first await
Started(kind) ==
    [tasks EXCEPT ![FreeTask] =
        [NewTask EXCEPT !.kind = kind, !.pc = "listing",
                        !.sp = RequestPage(NewListing, 1),
                        !.app = RequestPage(NewListing, 1),
                        !.afterFailure =
                            \E u \in TaskIds : tasks[u].pc = "done" /\ tasks[u].error # "none"]]

\* startScheduler(): cron.schedule('0 9 * * *', ...)
StartScheduler ==
    /\ cronState = "unregistered"
    /\ cronState' = "scheduled"
    /\ UNCHANGED <<time, accessToken, tokenExpiry, directory, tasks, starts>>
    /\ UNCHANGED <<dataVars, mailVars, fetchVars, startVars, pagingVars, uiVars>>

\* stopScheduler(): task.stop() on every cron task
StopScheduler ==
    /\ cronState = "scheduled"
    /\ cronState' = "stopped"
    /\ UNCHANGED <<time, accessToken, tokenExpiry, directory, tasks, starts>>
    /\ UNCHANGED <<dataVars, mailVars, fetchVars, startVars, pagingVars, uiVars>>

\* (WhenStopped: a driver that goes on firing a task after task.stop())
CronTickWhenStopped ==
    /\ cronState \in {"scheduled", "stopped"}
    /\ CanStart
    /\ starts' = starts + 1
    /\ tasks' = Started("cron")
    /\ UNCHANGED <<time, accessToken, tokenExpiry, directory, cronState>>
    /\ UNCHANGED <<dataVars, mailVars, fetchVars, startVars, pagingVars, uiVars>>

\* the cron callback: await this.checkSecretExpirations()
CronTick ==
    /\ cronState = "scheduled"
    /\ CanStart
    /\ starts' = starts + 1
    /\ tasks' = Started("cron")
    /\ UNCHANGED <<time, accessToken, tokenExpiry, directory, cronState>>
    /\ UNCHANGED <<dataVars, mailVars, fetchVars, startVars, pagingVars, uiVars>>

\* the /check-now route: await scheduler.runImmediateCheck()
CheckNowRequest ==
    /\ CanStart
    /\ starts' = starts + 1
    /\ tasks' = Started("manual")
    /\ UNCHANGED <<time, accessToken, tokenExpiry, directory, cronState>>
    /\ UNCHANGED <<dataVars, mailVars, fetchVars, startVars, pagingVars, uiVars>>

\* the /test-services route: await scheduler.testServices()
TestServicesRequest ==
    /\ CanStart
    /\ starts' = starts + 1
    /\ tasks' = Started("test")
    /\ UNCHANGED <<time, accessToken, tokenExpiry, directory, cronState>>
    /\ UNCHANGED <<dataVars, mailVars, fetchVars, startVars, pagingVars, uiVars>>

\* the token endpoint answers
ExchangeSucceeds(t, L) ==
    /\ tasks[t][L].pc = "exchange"
    /\ \E e \in ExpiresInChoices :
        tokenExpiry' = time + e * MsPerSecond - SafetyMarginMs
    /\ accessToken' = <<time>>
    /\ tasks' = [tasks EXCEPT ![t][L] = [@ EXCEPT !.pc = "get"]]
    /\ UNCHANGED <<time, directory, cronState, starts>>
    /\ UNCHANGED <<dataVars, mailVars, fetchVars, startVars, pagingVars, uiVars>>

ExchangeFails(t, L) ==
    /\ tasks[t][L].pc = "exchange"
    /\ tasks' = [tasks EXCEPT ![t] =
                    AfterListingStep([tasks[t] EXCEPT ![L] = Ended([@ EXCEPT !.pc = "failed"])], "auth")]
    /\ UNCHANGED <<time, accessToken, tokenExpiry, directory, cronState, starts>>
    /\ UNCHANGED <<dataVars, mailVars, fetchVars, startVars, pagingVars, uiVars>>

\* the Graph API answers a page request
PageSucceeds(t, L) ==
    /\ tasks[t][L].pc = "get"
    /\ LET l == tasks[t][L]
           pages == directory[Collection(L)]
           got == [l EXCEPT !.results = @ \o pages[l.page]]
           next == IF l.page < Len(pages) THEN RequestPage(got, l.page + 1)
                   ELSE IF tasks[t].pc = "listing" THEN [got EXCEPT !.pc = "done"]
                   ELSE Ended([got EXCEPT !.pc = "done"])
       IN tasks' = [tasks EXCEPT ![t] =
                        AfterListingStep([tasks[t] EXCEPT ![L] = next], "none")]
    /\ UNCHANGED <<time, accessToken, tokenExpiry, directory, cronState, starts>>
    /\ UNCHANGED <<dataVars, mailVars, fetchVars, startVars, pagingVars, uiVars>>

PageFails(t, L) ==
    /\ tasks[t][L].pc = "get"
    /\ tasks' = [tasks EXCEPT ![t] =
                    AfterListingStep([tasks[t] EXCEPT ![L] = Ended([@ EXCEPT !.pc = "failed"])], "graph")]
    /\ UNCHANGED <<time, accessToken, tokenExpiry, directory, cronState, starts>>
    /\ UNCHANGED <<dataVars, mailVars, fetchVars, startVars, pagingVars, uiVars>>

\* mailService.sendNotification(notifications) settles
MailSucceeds(t) ==
    /\ tasks[t].pc = "mail"
    /\ tasks' = [tasks EXCEPT ![t] = Settle(@, "resolved", "none")]
    /\ UNCHANGED <<time, accessToken, tokenExpiry, directory, cronState, starts>>
    /\ UNCHANGED <<dataVars, mailVars, fetchVars, startVars, pagingVars, uiVars>>

MailFails(t) ==
    /\ tasks[t].pc = "mail"
    /\ tasks' = [tasks EXCEPT ![t] = OnError(@, "delivery")]
    /\ UNCHANGED <<time, accessToken, tokenExpiry, directory, cronState, starts>>
    /\ UNCHANGED <<dataVars, mailVars, fetchVars, startVars, pagingVars, uiVars>>

\* what the promise of testServices does once testConnection() has returned
\* (ThrowOnFalse: a testServices that threw on a failed liveness check)
testServicesMailTestThrowOnFalse(mailTestResult) ==
    IF mailTestResult THEN "resolved" ELSE "rejected"

\* both results are logged, and the function returns
testServicesMailTest(mailTestResult) == "resolved"

\* mailService.testConnection() returns true, or false (verify() rejected,
\* or no client is held); it never throws
VerifyDone(t) ==
    /\ tasks[t].pc = "verify"
    /\ \E mailTestResult \in BOOLEAN :
        tasks' = [tasks EXCEPT ![t] =
                    Settle([@ EXCEPT !.mailTest = IF mailTestResult THEN "ok" ELSE "failed"],
                           testServicesMailTest(mailTestResult), "none")]
    /\ UNCHANGED <<time, accessToken, tokenExpiry, directory, cronState, starts>>
    /\ UNCHANGED <<dataVars, mailVars, fetchVars, startVars, pagingVars, uiVars>>

\* time passes, in steps of the length of the safety margin (a minute)
Tick ==
    /\ time < MaxTicks * TickMs
    /\ time' = time + TickMs
    /\ UNCHANGED <<accessToken, tokenExpiry, directory, cronState, tasks, starts>>
    /\ UNCHANGED <<dataVars, mailVars, fetchVars, startVars, pagingVars, uiVars>>

Next ==
    \/ StartScheduler
    \/ StopScheduler
    \/ CronTick
    \/ CheckNowRequest
    \/ TestServicesRequest
    \/ \E t \in TaskIds, L \in Listings : ExchangeSucceeds(t, L)
    \/ \E t \in TaskIds, L \in Listings : ExchangeFails(t, L)
    \/ \E t \in TaskIds, L \in Listings : PageSucceeds(t, L)
    \/ \E t \in TaskIds, L \in Listings : PageFails(t, L)
    \/ \E t \in TaskIds : MailSucceeds(t)
    \/ \E t \in TaskIds : MailFails(t)
    \/ \E t \in TaskIds : VerifyDone(t)
    \/ Tick

Spec == Init /\ [][Next]_vars

-----------------------------------------------------------------------------
(* Properties of the scheduler (Spec) *)

IsRun(t) == tasks[t].kind \in {"cron", "manual"}

InProgress(t) == tasks[t].pc \in {"listing", "mail", "verify"}

ListingFailed(t) == tasks[t].sp.pc = "failed" \/ tasks[t].app.pc = "failed"

\* C1: at most one execution of checkSecretExpirations is in progress at any
\* moment, so no two runs are sending mail at the same time.
C1_SingleFlight ==
    Cardinality({t \in TaskIds : IsRun(t) /\ InProgress(t)}) <= 1

\* C2: an error raised in the body of a run (a failed token exchange, page
\* request or mail delivery) ends the run with its promise resolved: nothing
\* is thrown to the cron driver or to runImmediateCheck's caller, the run is
\* over, and the cron tick and the manual trigger can start a run again.
C2_RunErrorsAreSwallowed ==
    /\ \A t \in TaskIds :
        IsRun(t) =>
            /\ tasks[t].outcome # "rejected"
            /\ tasks[t].thrown = "none"
            /\ (ListingFailed(t) \/ tasks[t].error # "none") =>
                    /\ tasks[t].pc = "done"
                    /\ tasks[t].outcome = "resolved"
                    /\ tasks[t].error \in {"auth", "graph", "delivery"}
    /\ (/\ \E t \in TaskIds : IsRun(t) /\ tasks[t].error # "none"
        /\ CanStart) =>
            /\ ENABLED CheckNowRequest
            /\ cronState = "scheduled" => ENABLED CronTick

\* a cron run is in progress that started after an earlier run had ended
\* with an error
C2_Witness ==
    \E t, u \in TaskIds :
        /\ tasks[t].kind = "cron" /\ tasks[t].pc = "listing" /\ tasks[t].afterFailure
        /\ IsRun(u) /\ tasks[u].pc = "done" /\ tasks[u].error = "auth"
        /\ tasks[u].outcome = "resolved"

\* C3: a check run started through /check-now in which an error was raised
\* is answered with a failure response, never with a report of completion.
C3_CheckNowReportsFailure ==
    \A t \in TaskIds :
        (tasks[t].kind = "manual" /\ tasks[t].pc = "done") =>
            /\ (ListingFailed(t) \/ tasks[t].error # "none") => tasks[t].response = "error"
            /\ tasks[t].response = "ok" => tasks[t].error = "none"

\* C4: when the token exchange or a page request of either listing fails
\* while testServices() runs, testServices() is over and its promise is
\* rejected with that error, which its caller sees as a failure; it is
\* rejected in no other case.
C4_TestServicesPropagates ==
    \A t \in TaskIds :
        tasks[t].kind = "test" =>
            /\ ListingFailed(t) =>
                /\ tasks[t].pc = "done"
                /\ tasks[t].outcome = "rejected"
                /\ tasks[t].error \in {"auth", "graph"}
                /\ tasks[t].thrown = tasks[t].error
                /\ tasks[t].response = "error"
            /\ tasks[t].outcome = "rejected" => ListingFailed(t)

\* testServices() has been rejected because the token exchange of its
\* application listing failed while the other listing was still pending
C4_Witness ==
    \E t \in TaskIds :
        /\ tasks[t].kind = "test" /\ tasks[t].pc = "done"
        /\ tasks[t].app.pc = "failed" /\ Pending(tasks[t].sp)
        /\ tasks[t].outcome = "rejected" /\ tasks[t].thrown = "auth"

\* the applications a check of the whole directory flags (the clock of Spec
\* stays within minutes of the epoch, where no day count changes)
FlaggedInDirectory ==
    getApplicationsExpiringInDays(
        Reconcile(Flatten(directory.servicePrincipals), Flatten(directory.applications),
                  [now |-> 0, tickAt |-> 0, drift |-> MaxDrift]),
        <<15, 10, 5, 4, 3, 2, 1, 0>>)

FilterRan(t) == tasks[t].flagged >= 0

\* C12: a cron run and a run of runImmediateCheck go through the same steps.
\* The filter runs with the thresholds 15, 10, 5, 4, 3, 2, 1, 0, only once
\* both listings have returned, on the reconciliation of what they returned;
\* sendNotification is invoked at most once, not before the filter has run,
\* and exactly when the filter returned at least one application.
C12_RunBodyOrder ==
    \A t \in TaskIds :
        /\ tasks[t].sends <= 1
        /\ tasks[t].sends = 1 => FilterRan(t)
        /\ tasks[t].pc = "mail" => tasks[t].sends = 1
        /\ ~IsRun(t) => ~FilterRan(t) /\ tasks[t].sends = 0
        /\ (IsRun(t) /\ tasks[t].pc = "done" /\ tasks[t].error = "none") => FilterRan(t)
        /\ FilterRan(t) =>
            /\ IsRun(t)
            /\ tasks[t].sp.pc = "done" /\ tasks[t].app.pc = "done"
            /\ tasks[t].thresholds = <<15, 10, 5, 4, 3, 2, 1, 0>>
            /\ tasks[t].flagged = Len(FlaggedInDirectory)
            /\ tasks[t].sends = 1 <=> tasks[t].flagged > 0
            /\ tasks[t].sends = 1 => tasks[t].notified = tasks[t].flagged

\* a cron run has sent its notification and a manual run is sending one,
\* each once, for the applications the filter returned
C12_Witness ==
    \E t, u \in TaskIds :
        /\ tasks[t].kind = "cron" /\ tasks[t].pc = "done" /\ tasks[t].error = "none"
        /\ tasks[t].sends = 1 /\ tasks[t].flagged = 1
        /\ tasks[u].kind = "manual" /\ tasks[u].pc = "mail"
        /\ tasks[u].sends = 1 /\ tasks[u].flagged = 1

\* a run whose filter returned no application has ended without a send
C12_WitnessEmpty ==
    \E t \in TaskIds :
        /\ IsRun(t) /\ tasks[t].pc = "done" /\ tasks[t].flagged = 0 /\ tasks[t].sends = 0

\* the invocation in slot t awaits a request whose answer takes it on: a
\* token exchange or page request of one of its listings, the mail send, or
\* the mail liveness check
Awaiting(t) ==
    \/ tasks[t].pc = "listing" /\ (Pending(tasks[t].sp) \/ Pending(tasks[t].app))
    \/ tasks[t].pc \in {"mail", "verify"}

\* a cron-triggered run is entered in slot t by this step
CronRunStarts(t) ==
    /\ Free(t)
    /\ tasks'[t].kind = "cron" /\ tasks'[t].pc = "listing"

\* C21: once stopScheduler() has been called the schedule stays stopped and
\* no cron-triggered run starts any more; the call itself leaves every
\* invocation as it is, and a run that is in progress while the schedule is
\* stopped is not cancelled: it still awaits the request it had pending,
\* whose answer takes it on towards completion or failure.
C21_StopScheduler ==
    [][/\ cronState = "stopped" =>
            /\ cronState' = "stopped"
            /\ \A t \in TaskIds : ~CronRunStarts(t)
       /\ (cronState = "scheduled" /\ cronState' = "stopped") => tasks' = tasks
       /\ cronState' = "stopped" =>
            \A t \in TaskIds : InProgress(t)' => Awaiting(t)']_vars

\* the schedule has been stopped and a cron-triggered run, started before
\* the stop, has gone on to send its notification
C21_Witness ==
    /\ cronState = "stopped"
    /\ \E t \in TaskIds :
        /\ tasks[t].kind = "cron" /\ tasks[t].pc = "mail" /\ tasks[t].sends = 1

\* C25: the two listings of an invocation are started together, before
\* either has completed; the reconciliation (and with it the filter and the
\* notification) starts only after both have completed successfully; when
\* either listing fails the invocation ends with that error, without
\* reconciled views and without a notification, whatever the other listing
\* does.
C25_ListingsInParallel ==
    \A t \in TaskIds :
        /\ tasks[t].pc # "idle" => tasks[t].sp.pc # "idle" /\ tasks[t].app.pc # "idle"
        /\ (FilterRan(t) \/ tasks[t].pc \in {"mail", "verify"} \/ tasks[t].sends > 0) =>
            tasks[t].sp.pc = "done" /\ tasks[t].app.pc = "done"
        /\ ListingFailed(t) =>
            /\ tasks[t].pc = "done" /\ tasks[t].error \in {"auth", "graph"}
            /\ ~FilterRan(t)
            /\ tasks[t].sends = 0 /\ tasks[t].notified = 0

\* the service-principal listing of a run failed while its application
\* listing succeeded: the run has ended without filter and notification
C25_Witness ==
    \E t \in TaskIds :
        /\ IsRun(t) /\ tasks[t].sp.pc = "failed" /\ tasks[t].app.pc = "done"
        /\ tasks[t].pc = "done" /\ ~FilterRan(t) /\ tasks[t].sends = 0

\* both listings of an invocation are pending at the same time
C25_WitnessBothPending ==
    \E t \in TaskIds :
        /\ tasks[t].pc = "listing"
        /\ Pending(tasks[t].sp) /\ Pending(tasks[t].app)

\* slot t is entered by a new trigger in this step
Triggered(t) == Free(t) /\ tasks'[t].pc = "listing"

\* C26: nothing is retried within an invocation.  The step in which a token
\* exchange, a page request or the mail send fails ends the invocation with
\* that failure; a failed listing sends no further request, an invocation
\* that has failed sends no mail and keeps its error, and the mail send is
\* attempted at most once.  The operation is attempted again only in an
\* invocation entered by a later trigger.
C26_NoRetry ==
    [][\A t \in TaskIds :
        ~Triggered(t) =>
            /\ \A L \in Listings :
                tasks[t][L].pc = "failed" => tasks'[t][L].pc = "failed"
            /\ \A L \in Listings :
                (tasks[t].pc = "listing" /\ tasks'[t][L].pc = "failed") =>
                    /\ tasks'[t].pc = "done"
                    /\ tasks'[t].error \in {"auth", "graph"}
            /\ (tasks[t].pc = "mail" /\ tasks'[t].pc # "mail") =>
                    /\ tasks'[t].pc = "done"
                    /\ tasks'[t].sends = 1
            /\ tasks[t].error # "none" =>
                    /\ tasks'[t].error = tasks[t].error
                    /\ tasks'[t].pc = "done"
                    /\ tasks'[t].sends = tasks[t].sends
            /\ tasks'[t].sends <= 1]_vars

\* an invocation has ended with a failed token exchange, and the next
\* trigger has entered an invocation that is exchanging a token again
C26_Witness ==
    \E t, u \in TaskIds :
        /\ tasks[u].pc = "done" /\ tasks[u].error = "auth"
        /\ tasks[t].pc = "listing" /\ tasks[t].afterFailure
        /\ tasks[t].sp.pc = "exchange"

\* the mail send of a run has failed: the run has ended, having sent once
C26_WitnessDelivery ==
    \E t \in TaskIds :
        /\ tasks[t].pc = "done" /\ tasks[t].error = "delivery" /\ tasks[t].sends = 1

\* C27: testServices() completes without error whenever the two listings
\* succeed, also when testConnection() returned false: it fails exactly when
\* a listing failed, and then the mail liveness check is not made at all.
C27_MailTestNeverFails ==
    \A t \in TaskIds :
        (tasks[t].kind = "test" /\ tasks[t].pc = "done") =>
            /\ tasks[t].outcome = "resolved" <=> ~ListingFailed(t)
            /\ tasks[t].outcome = "resolved" <=> tasks[t].mailTest # "none"
            /\ tasks[t].mailTest = "failed" =>
                /\ tasks[t].outcome = "resolved" /\ tasks[t].thrown = "none"
                /\ tasks[t].error = "none"
                /\ tasks[t].sp.pc = "done" /\ tasks[t].app.pc = "done"

\* testServices() has resolved although testConnection() returned false
C27_Witness ==
    \E t \in TaskIds :
        /\ tasks[t].kind = "test" /\ tasks[t].pc = "done"
        /\ tasks[t].mailTest = "failed" /\ tasks[t].outcome = "resolved"

-----------------------------------------------------------------------------
(* SpecMail: the MailService.  Its constructor reads the environment; then   *)
(* sendNotification is called, one call at a time, and each await on the     *)
(* SMTP transport or on the cloud-email (ACS) client is a step of its own.   *)

\* the environment variables the constructor looks at; mailEnv is the set of
\* those that are set to a non-empty string
MailEnvNames ==
    {"MAIL_TO", "MAIL_FROM", "SMTP_HOST", "SMTP_USERNAME", "SMTP_PASSWORD",
     "ACS_ENDPOINT", "ACS_KEY"}

ConstructionFailed(message) == [NoMailService EXCEPT !.status = "failed", !.error = message]

\* new MailService()
MailServiceConstructor(e) ==
    IF ~("MAIL_TO" \in e /\ "MAIL_FROM" \in e)
    THEN ConstructionFailed("Missing required mail configuration")
    ELSE IF "SMTP_HOST" \in e
    THEN IF ~("SMTP_USERNAME" \in e /\ "SMTP_PASSWORD" \in e)
         THEN ConstructionFailed("Missing required SMTP configuration")
         ELSE [NoMailService EXCEPT !.status = "constructed", !.config.smtp = TRUE,
                                    !.smtpTransporter = TRUE]
    ELSE IF "ACS_ENDPOINT" \in e
    THEN [NoMailService EXCEPT !.status = "constructed", !.config.acs = TRUE,
                               !.acsClient = TRUE]
    ELSE ConstructionFailed("Invalid MAIL_PROVIDER")

notificationX ==
    [appName |-> "A", appId |-> "X",
     secrets |-> <<[type |-> "secret", displayName |-> "old",
                    endDateTime |-> -3 * MsPerDay, daysUntilExpiration |-> -3,
                    isExpired |-> TRUE]>>]

notificationY ==
    [appName |-> "D", appId |-> "Y",
     secrets |-> <<[type |-> "certificate", displayName |-> "five",
                    endDateTime |-> 5 * MsPerDay, daysUntilExpiration |-> 5,
                    isExpired |-> FALSE]>>]

NotificationListsIn == SeqsUpTo({notificationX, notificationY}, MaxItems)

\* if (notifications.length === 0) return
sendNotificationEarlyReturnNever(items) == FALSE

sendNotificationEarlyReturn(items) == Len(items) = 0

\* the branch sendNotification takes: this.config.smtp, else this.config.acs
DispatchSwapped(config) ==
    IF config.smtp THEN "acs" ELSE IF config.acs THEN "smtp" ELSE "none"

Dispatch(config) ==
    IF config.smtp THEN "smtp" ELSE IF config.acs THEN "acs" ELSE "none"

MailThrown(call, message) == [call EXCEPT !.pc = "thrown", !.error = message]

\* sendNotification(items) up to its first pending request
StartSend(service, items) ==
    LET call == [NoMailCall EXCEPT !.items = items]
        branch == Dispatch(service.config)
    IN IF sendNotificationEarlyReturn(items) THEN [call EXCEPT !.pc = "returned"]
       ELSE IF branch = "smtp"
       THEN IF ~service.smtpTransporter
            THEN MailThrown(call, "SMTP transporter not initialized")
            ELSE [call EXCEPT !.pc = "sendMail", !.smtpCalls = @ + 1]
       ELSE IF branch = "acs"
       THEN IF ~service.acsClient
            THEN MailThrown(call, "ACS client not initialized")
            ELSE [call EXCEPT !.pc = "beginSend", !.acsCalls = @ + 1]
       ELSE MailThrown(call, "No mail provider configured")

\* await poller.pollUntilDone() (NotAwaited: the poller is left to itself)
pollUntilDoneNotAwaited == FALSE

pollUntilDoneAwaited == TRUE

InitMail ==
    /\ mailEnv \in SUBSET MailEnvNames
    /\ mailService = NoMailService
    /\ mailCall = NoMailCall
    /\ operation = "none"
    /\ DataUnused
    /\ SchedulerUnused
    /\ FetchUnused
    /\ StartUnused
    /\ PagingUnused
    /\ UiUnused

ConstructMailService ==
    /\ mailService.status = "unconstructed"
    /\ mailService' = MailServiceConstructor(mailEnv)
    /\ UNCHANGED <<mailEnv, mailCall, operation>>
    /\ UNCHANGED <<dataVars, schedVars, fetchVars, startVars, pagingVars, uiVars>>

SendNotification ==
    /\ mailService.status = "constructed"
    /\ mailCall.pc \in {"idle", "returned", "thrown"}
    /\ \E items \in NotificationListsIn : mailCall' = StartSend(mailService, items)
    /\ operation' = "none"
    /\ UNCHANGED <<mailEnv, mailService>>
    /\ UNCHANGED <<dataVars, schedVars, fetchVars, startVars, pagingVars, uiVars>>

\* smtpTransporter.sendMail settles
SendMailResolves ==
    /\ mailCall.pc = "sendMail"
    /\ mailCall' = [mailCall EXCEPT !.pc = "returned"]
    /\ UNCHANGED <<mailEnv, mailService, operation>>
    /\ UNCHANGED <<dataVars, schedVars, fetchVars, startVars, pagingVars, uiVars>>

SendMailRejects ==
    /\ mailCall.pc = "sendMail"
    /\ mailCall' = MailThrown(mailCall, "delivery")
    /\ UNCHANGED <<mailEnv, mailService, operation>>
    /\ UNCHANGED <<dataVars, schedVars, fetchVars, startVars, pagingVars, uiVars>>

\* acsClient.beginSend settles: the send operation has been submitted
BeginSendResolves ==
    /\ mailCall.pc = "beginSend"
    /\ operation' = "running"
    /\ mailCall' = [mailCall EXCEPT !.pc = IF pollUntilDoneAwaited THEN "poll"
                                           ELSE "returned"]
    /\ UNCHANGED <<mailEnv, mailService>>
    /\ UNCHANGED <<dataVars, schedVars, fetchVars, startVars, pagingVars, uiVars>>

BeginSendRejects ==
    /\ mailCall.pc = "beginSend"
    /\ mailCall' = MailThrown(mailCall, "delivery")
    /\ UNCHANGED <<mailEnv, mailService, operation>>
    /\ UNCHANGED <<dataVars, schedVars, fetchVars, startVars, pagingVars, uiVars>>

\* the cloud-email service finishes the operation
OperationSucceeds ==
    /\ operation = "running"
    /\ operation' = "succeeded"
    /\ UNCHANGED <<mailEnv, mailService, mailCall>>
    /\ UNCHANGED <<dataVars, schedVars, fetchVars, startVars, pagingVars, uiVars>>

OperationFails ==
    /\ operation = "running"
    /\ operation' = "failed"
    /\ UNCHANGED <<mailEnv, mailService, mailCall>>
    /\ UNCHANGED <<dataVars, schedVars, fetchVars, startVars, pagingVars, uiVars>>

\* poller.pollUntilDone() settles: it resolves once a poll has seen the
\* operation succeeded, and rejects once a poll has seen it failed
PollUntilDoneResolves ==
    /\ mailCall.pc = "poll"
    /\ operation = "succeeded"
    /\ mailCall' = [mailCall EXCEPT !.pc = "returned"]
    /\ UNCHANGED <<mailEnv, mailService, operation>>
    /\ UNCHANGED <<dataVars, schedVars, fetchVars, startVars, pagingVars, uiVars>>

PollUntilDoneRejects ==
    /\ mailCall.pc = "poll"
    /\ operation = "failed"
    /\ mailCall' = MailThrown(mailCall, "delivery")
    /\ UNCHANGED <<mailEnv, mailService, operation>>
    /\ UNCHANGED <<dataVars, schedVars, fetchVars, startVars, pagingVars, uiVars>>

\* a poll request fails while the operation is running
PollRequestFails ==
    /\ mailCall.pc = "poll"
    /\ operation = "running"
    /\ mailCall' = MailThrown(mailCall, "delivery")
    /\ UNCHANGED <<mailEnv, mailService, operation>>
    /\ UNCHANGED <<dataVars, schedVars, fetchVars, startVars, pagingVars, uiVars>>

NextMail ==
    \/ ConstructMailService
    \/ SendNotification
    \/ SendMailResolves
    \/ SendMailRejects
    \/ BeginSendResolves
    \/ BeginSendRejects
    \/ OperationSucceeds
    \/ OperationFails
    \/ PollUntilDoneResolves
    \/ PollUntilDoneRejects
    \/ PollRequestFails

SpecMail == InitMail /\ [][NextMail]_vars

-----------------------------------------------------------------------------
(* Properties of the MailService (SpecMail) *)

Called == mailCall.pc # "idle"

DeliveryCalls == mailCall.smtpCalls + mailCall.acsCalls

\* C13: a call of sendNotification with an empty list makes no delivery call
\* on the SMTP transport or on the cloud-email client, and returns normally.
C13_EmptyListIsNoOp ==
    (Called /\ mailCall.items = <<>>) =>
        /\ mailCall.pc = "returned"
        /\ mailCall.error = "none"
        /\ DeliveryCalls = 0
        /\ operation = "none"

\* sendNotification([]) has returned on a constructed service
C13_Witness ==
    /\ mailService.status = "constructed"
    /\ mailCall.pc = "returned" /\ mailCall.items = <<>>
    /\ DeliveryCalls = 0

\* C14: a call of sendNotification with a non-empty list makes exactly one
\* delivery call, on the backend the constructor set up (the SMTP transport
\* or the cloud-email client): never on both, and never on neither.
C14_ExactlyOneBackend ==
    (Called /\ mailCall.items # <<>>) =>
        /\ DeliveryCalls = 1
        /\ mailService.smtpTransporter # mailService.acsClient
        /\ mailCall.smtpCalls = 1 <=> mailService.smtpTransporter
        /\ mailCall.acsCalls = 1 <=> mailService.acsClient

\* with SMTP host and cloud-email endpoint both set, a non-empty list has
\* been sent with one call of the SMTP transport and none of the cloud client
C14_Witness ==
    /\ {"SMTP_HOST", "ACS_ENDPOINT"} \subseteq mailEnv
    /\ mailCall.pc = "returned" /\ mailCall.items # <<>>
    /\ mailCall.smtpCalls = 1 /\ mailCall.acsCalls = 0

Constructed == mailService.status = "constructed"

ProvidersConfigured == Cardinality(mailEnv \cap {"SMTP_HOST", "ACS_ENDPOINT"})

\* C15: the constructor fails with a configuration error when neither SMTP
\* host nor cloud-email endpoint is set and when both are set; it succeeds
\* only when exactly one of them is set and recipient and sender are set.
C15_ConstructorValidatesProviders ==
    mailService.status # "unconstructed" =>
        /\ ProvidersConfigured = 0 => mailService.status = "failed"
        /\ ProvidersConfigured = 2 => mailService.status = "failed"
        /\ Constructed =>
            /\ ProvidersConfigured = 1
            /\ {"MAIL_TO", "MAIL_FROM"} \subseteq mailEnv

\* C16: with the cloud-email backend, sendNotification has not returned
\* unless the send operation it submitted has succeeded; while the call is
\* over and the operation is failed, or a poll of it failed, the call has
\* thrown a delivery error.
C16_BlocksUntilTerminal ==
    (Called /\ mailCall.acsCalls > 0) =>
        /\ mailCall.pc = "returned" => operation = "succeeded"
        /\ (mailCall.pc \notin {"beginSend", "poll"} /\ operation # "succeeded") =>
                /\ mailCall.pc = "thrown"
                /\ mailCall.error = "delivery"
        /\ mailCall.pc = "poll" => operation # "none"

\* the operation submitted by a call has failed and the call has thrown
C16_Witness ==
    /\ mailCall.acsCalls = 1
    /\ operation = "failed"
    /\ mailCall.pc = "thrown" /\ mailCall.error = "delivery"

\* the operation has succeeded and the call has returned after it
C16_WitnessSucceeded ==
    /\ mailCall.acsCalls = 1
    /\ operation = "succeeded"
    /\ mailCall.pc = "returned"

-----------------------------------------------------------------------------
(* SpecFetch: one call of getAllApplicationsWithSecrets up to its merge,     *)
(* with the token cache of getAccessToken under it.  The two listings run    *)
(* concurrently; the identity provider issues a token some time after the    *)
(* exchange was requested and before its response is processed.  A token is  *)
(* named by the position of its response in idp.                             *)

FetchTickMs == SafetyMarginMs \div 2

\* expires_in of the token responses, in seconds
FetchExpiresInChoices == {90}

\* the locals of one getAllPagedResults call, and about the token of its
\* current page request: where it came from (cache or exchange), when it was
\* obtained, the response of the pending exchange (0: not issued yet); and
\* the pages whose GET has been issued, in order
NewFetchListing ==
    [pc |-> "idle", page |-> 0, token |-> <<>>, results |-> <<>>,
     from |-> "none", at |-> 0, issued |-> 0, requested |-> <<>>, error |-> "none"]

NewFetch ==
    [pc |-> "idle", sp |-> NewFetchListing, app |-> NewFetchListing,
     result |-> <<>>, error |-> "none"]

\* this.tokenExpiry = new Date(Date.now() + expires_in * 1000 - 60000)
\* (OnlyIfUnset: an expiry already stored is kept)
StoreExpiryOnlyIfUnset(old, now, expiresIn) ==
    IF old # 0 THEN old ELSE now + expiresIn * MsPerSecond - SafetyMarginMs

StoreExpiry(old, now, expiresIn) == now + expiresIn * MsPerSecond - SafetyMarginMs

\* makeGraphRequest(url of page k) up to its first pending request
FetchRequestPage(l, k) ==
    LET r == RequestPage(l, k)
    IN IF r.pc = "get"
       THEN [r EXCEPT !.token = accessToken, !.from = "cache", !.at = time,
                      !.issued = 0, !.requested = Append(@, k)]
       ELSE [r EXCEPT !.from = "none", !.at = time, !.issued = 0, !.token = <<>>]

\* results = results.concat(response.value)
ConcatPagePrepend(results, items) == items \o results

ConcatPage(results, items) == results \o items

\* a request of the listing failed: makeGraphRequest / getAccessToken throw,
\* and getAllPagedResults with them (KeepPartial: the loop ends and the
\* pages fetched so far are returned)
AbortListingKeepPartial(l, err) ==
    [l EXCEPT !.pc = "done", !.token = <<>>, !.from = "none", !.issued = 0]

AbortListing(l, err) ==
    [l EXCEPT !.pc = "failed", !.results = <<>>, !.error = err,
              !.token = <<>>, !.from = "none", !.issued = 0]

\* Promise.all of the two listings, and the merge that follows it
PromiseAll(f) ==
    IF f.pc # "listing" THEN f
    ELSE IF f.sp.pc = "failed" THEN [f EXCEPT !.pc = "rejected", !.error = f.sp.error]
    ELSE IF f.app.pc = "failed" THEN [f EXCEPT !.pc = "rejected", !.error = f.app.error]
    ELSE IF f.sp.pc = "done" /\ f.app.pc = "done"
    THEN [f EXCEPT !.pc = "merged",
                   !.result = Reconcile(f.sp.results, f.app.results,
                                        [now |-> time, tickAt |-> 0, drift |-> MaxDrift])]
    ELSE f

InitFetch ==
    /\ time = 0
    /\ accessToken = <<>>
    /\ tokenExpiry = 0
    /\ directory \in Directories
    /\ cronState = "unregistered"
    /\ tasks = <<>>
    /\ starts = 0
    /\ fetch = NewFetch
    /\ idp = <<>>
    /\ DataUnused
    /\ MailUnused
    /\ StartUnused
    /\ PagingUnused
    /\ UiUnused

\* getAllApplicationsWithSecrets(): both listings start before the first await
CallGetAll ==
    /\ fetch.pc = "idle"
    /\ fetch' = [fetch EXCEPT !.pc = "listing",
                              !.sp = FetchRequestPage(NewFetchListing, 1),
                              !.app = FetchRequestPage(NewFetchListing, 1)]
    /\ UNCHANGED <<time, accessToken, tokenExpiry, directory, cronState, tasks, starts, idp>>
    /\ UNCHANGED <<dataVars, mailVars, startVars, pagingVars, uiVars>>

\* the identity provider issues the token of a pending exchange
IssueToken(L) ==
    /\ fetch.pc # "idle"
    /\ fetch[L].pc = "exchange" /\ fetch[L].issued = 0
    /\ \E e \in FetchExpiresInChoices :
        idp' = Append(idp, [issuedAt |-> time, expiresIn |-> e, receivedAt |-> -1])
    /\ fetch' = [fetch EXCEPT ![L].issued = Len(idp) + 1]
    /\ UNCHANGED <<time, accessToken, tokenExpiry, directory, cronState, tasks, starts>>
    /\ UNCHANGED <<dataVars, mailVars, startVars, pagingVars, uiVars>>

\* the token response is processed: the cache is replaced and the page
\* request goes out with the new token
FetchExchangeSucceeds(L) ==
    /\ fetch.pc # "idle"
    /\ fetch[L].pc = "exchange" /\ fetch[L].issued > 0
    /\ LET id == fetch[L].issued
       IN /\ accessToken' = <<id>>
          /\ tokenExpiry' = StoreExpiry(tokenExpiry, time, idp[id].expiresIn)
          /\ idp' = [idp EXCEPT ![id].receivedAt = time]
          /\ fetch' = [fetch EXCEPT ![L] =
                            [@ EXCEPT !.pc = "get", !.token = <<id>>, !.from = "exchange",
                                      !.at = time, !.requested = Append(@, fetch[L].page)]]
    /\ UNCHANGED <<time, directory, cronState, tasks, starts>>
    /\ UNCHANGED <<dataVars, mailVars, startVars, pagingVars, uiVars>>

FetchExchangeFails(L) ==
    /\ fetch.pc # "idle"
    /\ fetch[L].pc = "exchange"
    /\ fetch' = PromiseAll([fetch EXCEPT ![L] = AbortListing(@, "auth")])
    /\ UNCHANGED <<time, accessToken, tokenExpiry, directory, cronState, tasks, starts, idp>>
    /\ UNCHANGED <<dataVars, mailVars, startVars, pagingVars, uiVars>>

\* the Graph API answers the page request
FetchPageSucceeds(L) ==
    /\ fetch.pc # "idle"
    /\ fetch[L].pc = "get"
    /\ LET l == fetch[L]
           pages == directory[Collection(L)]
           got == [l EXCEPT !.results = ConcatPage(@, pages[l.page])]
           next == IF l.page < Len(pages) THEN FetchRequestPage(got, l.page + 1)
                   ELSE [got EXCEPT !.pc = "done", !.token = <<>>, !.from = "none"]
       IN fetch' = PromiseAll([fetch EXCEPT ![L] = next])
    /\ UNCHANGED <<time, accessToken, tokenExpiry, directory, cronState, tasks, starts, idp>>
    /\ UNCHANGED <<dataVars, mailVars, startVars, pagingVars, uiVars>>

FetchPageFails(L) ==
    /\ fetch.pc # "idle"
    /\ fetch[L].pc = "get"
    /\ fetch' = PromiseAll([fetch EXCEPT ![L] = AbortListing(@, "graph")])
    /\ UNCHANGED <<time, accessToken, tokenExpiry, directory, cronState, tasks, starts, idp>>
    /\ UNCHANGED <<dataVars, mailVars, startVars, pagingVars, uiVars>>

FetchTick ==
    /\ time < MaxFetchTicks * FetchTickMs
    /\ time' = time + FetchTickMs
    /\ UNCHANGED <<accessToken, tokenExpiry, directory, cronState, tasks, starts>>
    /\ UNCHANGED fetchVars
    /\ UNCHANGED <<dataVars, mailVars, startVars, pagingVars, uiVars>>

NextFetch ==
    \/ CallGetAll
    \/ \E L \in Listings : IssueToken(L)
    \/ \E L \in Listings : FetchExchangeSucceeds(L)
    \/ \E L \in Listings : FetchExchangeFails(L)
    \/ \E L \in Listings : FetchPageSucceeds(L)
    \/ \E L \in Listings : FetchPageFails(L)
    \/ FetchTick

SpecFetch == InitFetch /\ [][NextFetch]_vars

-----------------------------------------------------------------------------
(* Properties of the token cache and of the paged listings (SpecFetch) *)

IssuedIds == 1..Len(idp)

\* the expiry stored with a token response: the instant the response was
\* processed, plus expires_in, minus 60 s
StoredExpiryOf(r) == r.receivedAt + r.expiresIn * 1000 - 60000

\* the end of the lifetime the identity provider granted
LifetimeEnd(r) == r.issuedAt + r.expiresIn * 1000

Latency(r) == r.receivedAt - r.issuedAt

FromCache(L) == fetch[L].from = "cache"

\* the cached token is handed out only before the expiry stored with it
HandedOutBeforeStoredExpiry ==
    \A L \in Listings :
        FromCache(L) =>
            /\ fetch[L].token # <<>>
            /\ fetch[L].token[1] \in IssuedIds
            /\ idp[fetch[L].token[1]].receivedAt >= 0
            /\ fetch[L].at < StoredExpiryOf(idp[fetch[L].token[1]])

\* C17 as stated: the cached token is returned only while the time is before
\* the stored expiry (time of exchange + expires_in - 60 s); hence a cached
\* token is never handed out later than 60 s before the end of the lifetime
\* the identity provider granted.
C17_CachedTokenMargin ==
    /\ HandedOutBeforeStoredExpiry
    /\ \A L \in Listings :
        FromCache(L) =>
            fetch[L].at <= LifetimeEnd(idp[fetch[L].token[1]]) - 60000

\* what a step of a listing does with the token cache: it starts an exchange
\* only when the cache holds no token or the time is not before the stored
\* expiry, takes the cached token otherwise, and an exchange that succeeds
\* replaces the cached token and the expiry, from its one response
TokenProviderStep ==
    \A L \in Listings :
        /\ (fetch[L].pc # "exchange" /\ fetch'[L].pc = "exchange") =>
                (accessToken = <<>> \/ time >= tokenExpiry)
        /\ (FromCache(L)' /\ fetch'[L].requested # fetch[L].requested) =>
                /\ accessToken # <<>> /\ time < tokenExpiry
                /\ fetch'[L].token = accessToken
                /\ UNCHANGED <<accessToken, tokenExpiry, idp>>
        /\ (fetch[L].pc = "exchange" /\ fetch'[L].pc = "get") =>
                /\ accessToken' = fetch'[L].token
                /\ accessToken'[1] = fetch[L].issued
                /\ tokenExpiry' = time + idp[fetch[L].issued].expiresIn * 1000 - 60000
                /\ Len(idp') = Len(idp)

\* C17 amended: the cached token is returned without an exchange only while
\* the time is before the stored expiry, which is (the instant the exchange
\* response was processed + expires_in - 60 s); otherwise one exchange is
\* made and its response replaces the cached token and expiry.  A cached
\* token is handed out less than 60 s before the end of the lifetime the
\* identity provider granted only by as much as the token response took to
\* arrive, and always within that lifetime when it took 60 s or less.
C17_CachedTokenMarginAmended ==
    [][/\ TokenProviderStep
       /\ HandedOutBeforeStoredExpiry'
       /\ \A L \in Listings :
            FromCache(L)' =>
                LET r == idp'[fetch'[L].token[1]]
                IN /\ fetch'[L].at < LifetimeEnd(r) - 60000 + Latency(r)
                   /\ Latency(r) <= 60000 => fetch'[L].at < LifetimeEnd(r)]_vars

\* the second page of the service principals was requested with the cached
\* token, whose response had taken 30 s to arrive, while the first page of
\* the applications had needed an exchange of its own
C17_Witness ==
    /\ fetch.sp.pc = "get" /\ fetch.sp.page = 2 /\ FromCache("sp")
    /\ Latency(idp[fetch.sp.token[1]]) = 30000
    /\ fetch.sp.at < tokenExpiry
    /\ Len(idp) = 2

\* C18: whatever the two listings do to the cache, it holds a token together
\* with the expiry computed from that token's own response; every token a
\* listing attaches is one the identity provider has issued and delivered,
\* and a listing that made an exchange attaches the token of its own
\* exchange, as the response is processed.
C18_RefreshRaceIsIdempotent ==
    /\ accessToken = <<>> => tokenExpiry = 0
    /\ accessToken # <<>> =>
        /\ accessToken[1] \in IssuedIds
        /\ idp[accessToken[1]].receivedAt >= 0
        /\ tokenExpiry = StoredExpiryOf(idp[accessToken[1]])
    /\ \A L \in Listings :
        fetch[L].token # <<>> =>
            /\ fetch[L].token[1] \in IssuedIds
            /\ idp[fetch[L].token[1]].receivedAt >= 0
            /\ idp[fetch[L].token[1]].receivedAt <= fetch[L].at
            /\ fetch[L].from = "exchange" =>
                /\ fetch[L].token[1] = fetch[L].issued
                /\ idp[fetch[L].token[1]].receivedAt = fetch[L].at

\* on a cold cache both listings made an exchange; the responses came 30 s
\* apart, each listing attached its own token, and the cache holds the later
\* one with its expiry
C18_Witness ==
    /\ Len(idp) = 2
    /\ fetch.sp.pc = "get" /\ fetch.sp.page = 1 /\ fetch.sp.from = "exchange"
    /\ fetch.app.pc = "get" /\ fetch.app.page = 1 /\ fetch.app.from = "exchange"
    /\ fetch.sp.token # fetch.app.token
    /\ fetch.sp.at = 0 /\ fetch.app.at = 30000
    /\ accessToken = fetch.app.token
    /\ tokenExpiry = 60000

PagesOf(L) == directory[Collection(L)]

FirstPages(L, n) == Flatten(SubSeq(PagesOf(L), 1, n))

\* C19: a listing requests the pages of its collection in order, one at a
\* time (page k + 1 only once page k has returned), each with a token got
\* from the token provider as the request goes out; what it has accumulated
\* is the concatenation, in page order, of the pages returned so far, and
\* what it returns is the concatenation of all pages up to the one without
\* a next link.
C19_PagedListing ==
    \A L \in Listings :
        LET l == fetch[L]
        IN /\ l.requested = [i \in 1..Len(l.requested) |-> i]
           /\ Len(l.requested) <= Len(PagesOf(L))
           /\ l.pc = "get" =>
                /\ l.page = Len(l.requested)
                /\ l.results = FirstPages(L, l.page - 1)
                /\ l.token # <<>>
                /\ l.from \in {"cache", "exchange"}
                /\ l.from = "cache" => l.at < StoredExpiryOf(idp[l.token[1]])
                /\ l.from = "exchange" => l.at = idp[l.token[1]].receivedAt
           /\ l.pc = "exchange" =>
                /\ l.page = Len(l.requested) + 1
                /\ l.results = FirstPages(L, l.page - 1)
           /\ l.pc = "done" =>
                /\ Len(l.requested) = Len(PagesOf(L))
                /\ l.results = Flatten(PagesOf(L))

\* the listing of the service principals has returned the records of its
\* two pages, in page order
C19_Witness ==
    /\ fetch.sp.pc = "done"
    /\ fetch.sp.requested = <<1, 2>>
    /\ Len(fetch.sp.results) = 2
    /\ fetch.sp.results[1].id = "sp1" /\ fetch.sp.results[2].id = "sp3"

\* C20: when a request of a listing fails, the listing fails with an error
\* and hands on nothing of what it had fetched; getAllApplicationsWithSecrets
\* is rejected without a result, and it merges only when both listings have
\* returned, and then all the records of both collections.
C20_NoPartialListing ==
    /\ \A L \in Listings :
        fetch[L].pc = "failed" =>
            /\ fetch[L].results = <<>>
            /\ fetch[L].error \in {"auth", "graph"}
            /\ fetch.pc = "rejected"
    /\ fetch.pc = "rejected" =>
        /\ fetch.result = <<>>
        /\ fetch.error \in {"auth", "graph"}
        /\ \E L \in Listings : fetch[L].pc = "failed"
    /\ fetch.pc = "merged" =>
        /\ fetch.sp.pc = "done" /\ fetch.app.pc = "done"
        /\ fetch.error = "none"
        /\ fetch.result =
                Reconcile(Flatten(directory.servicePrincipals),
                          Flatten(directory.applications),
                          [now |-> 0, tickAt |-> 0, drift |-> MaxDrift])

\* the request of page 2 of the service principals failed after page 1 had
\* returned: the listing and the call are over with an error and no result
C20_Witness ==
    /\ fetch.sp.pc = "failed" /\ fetch.sp.requested = <<1, 2>>
    /\ fetch.sp.error = "graph" /\ fetch.sp.results = <<>>
    /\ fetch.pc = "rejected" /\ fetch.error = "graph" /\ fetch.result = <<>>

-----------------------------------------------------------------------------
(* SpecStartup: the process of index.ts.  start() constructs a Scheduler and  *)
(* awaits its testServices(), builds the server, listens, and starts the      *)
(* scheduler held in the module variable `scheduler`; the cron driver fires   *)
(* at 09:00 Europe/Rome; SIGTERM and SIGINT run shutdown().                   *)

AzureEnvNames == {"TENANT_ID", "CLIENT_ID", "CLIENT_SECRET"}

\* new AzureService(): throws when one of the three settings is missing
AzureServiceConstructor(e) ==
    IF AzureEnvNames \subseteq e THEN "none"
    ELSE "Missing required Azure configuration"

\* new Scheduler(): new AzureService(), then new MailService(); the message
\* of the error thrown, or "none"
SchedulerConstructor(e) ==
    IF AzureServiceConstructor(e) # "none" THEN AzureServiceConstructor(e)
    ELSE MailServiceConstructor(e).error

\* the process when start() is called: `let scheduler` holds undefined
NewProcess ==
    [pc |-> "start", scheduler |-> "undefined", listening |-> FALSE,
     cron |-> "unregistered", tested |-> "none", error |-> "none",
     ticks |-> 0, runs |-> 0]

\* an error thrown inside start()
\* (LogAndContinue: a start() that caught the error and went on to build())
StartRejectsLogAndContinue(p, err) == [p EXCEPT !.pc = "build", !.error = err]

\* start() has no catch: its promise rejects and the rest of it does not run
StartRejects(p, err) == [p EXCEPT !.pc = "failed", !.error = err]

\* if(scheduler) scheduler.startScheduler()
StartSchedulerIfSet(p) ==
    IF p.scheduler # "undefined" THEN [p EXCEPT !.cron = "scheduled"] ELSE p

\* if(scheduler) scheduler.stopScheduler()
StopSchedulerIfSet(p) ==
    IF p.scheduler # "undefined" /\ p.cron = "scheduled"
    THEN [p EXCEPT !.cron = "stopped"] ELSE p

InitStartup ==
    /\ env \in SUBSET (AzureEnvNames \cup MailEnvNames)
    /\ proc = NewProcess
    /\ DataUnused
    /\ SchedulerUnused
    /\ MailUnused
    /\ FetchUnused
    /\ PagingUnused
    /\ UiUnused

\* new Scheduler() in start()
ConstructScheduler ==
    /\ proc.pc = "start"
    /\ proc' = IF SchedulerConstructor(env) = "none"
               THEN [proc EXCEPT !.pc = "testing"]
               ELSE StartRejects(proc, SchedulerConstructor(env))
    /\ UNCHANGED <<env, dataVars, schedVars, mailVars, fetchVars, pagingVars, uiVars>>

\* await new Scheduler().testServices() resolves
StartupTestResolves ==
    /\ proc.pc = "testing"
    /\ proc' = [proc EXCEPT !.pc = "build", !.tested = "ok"]
    /\ UNCHANGED <<env, dataVars, schedVars, mailVars, fetchVars, pagingVars, uiVars>>

\* await new Scheduler().testServices() rejects
StartupTestRejects ==
    /\ proc.pc = "testing"
    /\ proc' = StartRejects([proc EXCEPT !.tested = "failed"], "testServices")
    /\ UNCHANGED <<env, dataVars, schedVars, mailVars, fetchVars, pagingVars, uiVars>>

\* await build(): the plugins and the controllers are registered
BuildResolves ==
    /\ proc.pc = "build"
    /\ proc' = [proc EXCEPT !.pc = "listen"]
    /\ UNCHANGED <<env, dataVars, schedVars, mailVars, fetchVars, pagingVars, uiVars>>

BuildRejects ==
    /\ proc.pc = "build"
    /\ proc' = StartRejects(proc, "build")
    /\ UNCHANGED <<env, dataVars, schedVars, mailVars, fetchVars, pagingVars, uiVars>>

\* await fastify.listen(...) resolves; the rest of start() runs
ListenResolves ==
    /\ proc.pc = "listen"
    /\ proc' = StartSchedulerIfSet([proc EXCEPT !.pc = "serving", !.listening = TRUE])
    /\ UNCHANGED <<env, dataVars, schedVars, mailVars, fetchVars, pagingVars, uiVars>>

ListenRejects ==
    /\ proc.pc = "listen"
    /\ proc' = StartRejects(proc, "listen")
    /\ UNCHANGED <<env, dataVars, schedVars, mailVars, fetchVars, pagingVars, uiVars>>

\* it is 09:00 in Europe/Rome while the process serves: the cron driver
\* calls the callbacks registered with it
CronClock ==
    /\ proc.pc = "serving"
    /\ proc.ticks < MaxCronTicks
    /\ proc' = [proc EXCEPT !.ticks = @ + 1,
                            !.runs = IF proc.cron = "scheduled" THEN @ + 1 ELSE @]
    /\ UNCHANGED <<env, dataVars, schedVars, mailVars, fetchVars, pagingVars, uiVars>>

\* SIGTERM or SIGINT: shutdown() stops the scheduler held in `scheduler`,
\* closes the server and exits
Shutdown ==
    /\ proc.pc \in {"testing", "build", "listen", "serving"}
    /\ proc' = [StopSchedulerIfSet(proc) EXCEPT !.pc = "exited", !.listening = FALSE]
    /\ UNCHANGED <<env, dataVars, schedVars, mailVars, fetchVars, pagingVars, uiVars>>

\* the rejection of start() is handled nowhere: the process ends
UnhandledRejection ==
    /\ proc.pc = "failed"
    /\ proc' = [proc EXCEPT !.pc = "exited"]
    /\ UNCHANGED <<env, dataVars, schedVars, mailVars, fetchVars, pagingVars, uiVars>>

NextStartup ==
    \/ ConstructScheduler
    \/ StartupTestResolves
    \/ StartupTestRejects
    \/ BuildResolves
    \/ BuildRejects
    \/ ListenResolves
    \/ ListenRejects
    \/ CronClock
    \/ Shutdown
    \/ UnhandledRejection

SpecStartup == InitStartup /\ [][NextStartup]_vars

-----------------------------------------------------------------------------
(* Properties of process startup (SpecStartup) *)

\* C22: once startup has completed (services tested, server listening) the
\* daily check is registered with the cron driver, and every 09:00 tick that
\* has occurred since, before shutdown, has started a check run.
C22_DailyCheckRegistered ==
    proc.pc = "serving" =>
        /\ proc.cron = "scheduled"
        /\ proc.runs = proc.ticks

\* C23: the server listens only after the Scheduler was constructed and the
\* startup service test succeeded; when the construction fails with a
\* configuration error or testServices() fails, the process is never
\* listening or serving and the cron schedule is never started.
C23_ListenOnlyAfterTest ==
    /\ (proc.listening \/ proc.pc \in {"listen", "serving"}) =>
        /\ SchedulerConstructor(env) = "none"
        /\ proc.tested = "ok"
    /\ (SchedulerConstructor(env) # "none" /\ proc.pc # "start") =>
        /\ proc.tested = "none"
        /\ proc.error = SchedulerConstructor(env)
    /\ (SchedulerConstructor(env) # "none" \/ proc.tested = "failed") =>
        /\ ~proc.listening
        /\ proc.pc \in {"start", "failed", "exited"}
        /\ proc.cron = "unregistered"
        /\ proc.runs = 0

\* the startup service test has failed: start() has ended, nothing listens
C23_Witness ==
    /\ proc.pc = "failed" /\ proc.tested = "failed" /\ proc.error = "testServices"
    /\ ~proc.listening

\* the mail configuration names no provider: start() has ended at the
\* construction of the Scheduler
C23_WitnessConfiguration ==
    /\ proc.pc = "failed" /\ proc.error = "Invalid MAIL_PROVIDER"
    /\ AzureEnvNames \subseteq env

-----------------------------------------------------------------------------
(* SpecPaging: one call of getAllPagedResults on a collection whose pages     *)
(* link to each other in any way, every page request returning successfully.  *)
(* Page URLs are 1..MaxPages, the call starts at URL 1, and chain[u] is the   *)
(* @odata.nextLink of the page at u (0: the page has none).  The results      *)
(* array is followed as the sequence of the pages concatenated, up to MaxKept *)
(* of them; pages fetched after that are not told apart.                      *)

PageUrls == 1..MaxPages

Chains == [PageUrls -> PageUrls \cup {0}]

\* results = results.concat(response[valueKey] || [])
Concatenated(results, url) ==
    IF Len(results) < MaxKept THEN Append(results, url) ELSE results

InitPaging ==
    /\ chain \in Chains
    /\ walk = [pc |-> "idle", nextUrl |-> 0, results |-> <<>>]
    /\ DataUnused
    /\ SchedulerUnused
    /\ MailUnused
    /\ FetchUnused
    /\ StartUnused
    /\ UiUnused

\* getAllPagedResults(url): let results = [], nextUrl = url; the loop awaits
\* its first page request
CallGetAllPagedResults ==
    /\ walk.pc = "idle"
    /\ walk' = [pc |-> "get", nextUrl |-> 1, results |-> <<>>]
    /\ UNCHANGED <<chain, dataVars, schedVars, mailVars, fetchVars, startVars, uiVars>>

\* (Once: a loop that stopped at a link to a page it has fetched already)
PageReturnsOnce ==
    /\ walk.pc = "get"
    /\ LET link == chain[walk.nextUrl]
           seen == Range(walk.results) \cup {walk.nextUrl}
           next == IF link \in seen THEN 0 ELSE link
       IN walk' = [pc |-> IF next = 0 THEN "done" ELSE "get",
                   nextUrl |-> next,
                   results |-> Concatenated(walk.results, walk.nextUrl)]
    /\ UNCHANGED <<chain, dataVars, schedVars, mailVars, fetchVars, startVars, uiVars>>

\* the page request returns: the page is concatenated, nextUrl becomes its
\* @odata.nextLink or null, and while (nextUrl) decides
PageReturns ==
    /\ walk.pc = "get"
    /\ LET next == chain[walk.nextUrl]
       IN walk' = [pc |-> IF next = 0 THEN "done" ELSE "get",
                   nextUrl |-> next,
                   results |-> Concatenated(walk.results, walk.nextUrl)]
    /\ UNCHANGED <<chain, dataVars, schedVars, mailVars, fetchVars, startVars, uiVars>>

NextPaging == CallGetAllPagedResults \/ PageReturns

SpecPaging == InitPaging /\ [][NextPaging]_vars

\* every page request returns: a pending request is answered in the end
SpecPagingFair == SpecPaging /\ WF_vars(PageReturns)

-----------------------------------------------------------------------------
(* Properties of following the next-page links (SpecPagingFair) *)

\* following the links from url, a page without a next link is reached
\* within n requests
RECURSIVE EndsWithin(_, _)
EndsWithin(url, n) ==
    IF url = 0 THEN TRUE
    ELSE IF n = 0 THEN FALSE
    ELSE EndsWithin(chain[url], n - 1)

\* the chain from the first URL reaches a page without a next link; if it
\* does not within MaxPages requests, it has come back to a URL
ChainEnds == EndsWithin(1, MaxPages)

\* C29: with every page request returning successfully, a listing that has
\* been started returns in the end if the chain of next-page links reaches a
\* page without a next link, however long the chain is, and never returns if
\* the chain revisits a URL: there is no page bound and no cycle detection.
C29_ReturnsIffChainEnds ==
    /\ []((ChainEnds /\ walk.pc = "get") => <>(walk.pc = "done"))
    /\ [](~ChainEnds => walk.pc # "done")

\* the chain revisits a URL, and the listing has fetched more pages than the
\* collection has and is requesting the next one
C29_Witness ==
    /\ ~ChainEnds
    /\ walk.pc = "get"
    /\ Len(walk.results) > MaxPages

\* the listing of a chain through all the page URLs has returned
C29_WitnessReturned ==
    /\ walk.pc = "done"
    /\ walk.results = [k \in 1..MaxPages |-> k]

-----------------------------------------------------------------------------
(* SpecDashboard: the dashboard over one application of GET /applications.    *)
(* The application's descriptors are built by the backend at one instant;     *)
(* AppTable computes the row of the application, and the details dialog the   *)
(* badge of each of its credentials.                                          *)

\* the application as the backend serves it
ServedApplication(passwords, keys) ==
    [secrets |-> processPasswordCredentials(passwords, "application",
                                            [now |-> 0, tickAt |-> 0, drift |-> 1], 0),
     certificates |-> processKeyCredentials(keys, "application",
                                            [now |-> 0, tickAt |-> 0, drift |-> 1], 0)]

\* the forEach passes of applicationsWithStatus: best is <<>> while
\* minDaysRemaining is Infinity, then <<minDaysRemaining, nearestExpiration>>
RECURSIVE Nearest(_, _)
Nearest(list, best) ==
    IF list = <<>> THEN best
    ELSE LET c == Head(list)
         IN Nearest(Tail(list),
                    IF best = <<>> \/ c.daysUntilExpiration < best[1]
                    THEN <<c.daysUntilExpiration, c.endDateTime>>
                    ELSE best)

\* the status of the row, from minDaysRemaining
TableStatus(minDaysRemaining) ==
    IF minDaysRemaining < 0 THEN "expired"
    ELSE IF minDaysRemaining <= 15 THEN "expiring"
    ELSE "valid"

\* applicationsWithStatus, for one application with a credential
applicationsWithStatus(app) ==
    LET best == Nearest(app.secrets, Nearest(app.certificates, <<>>))
    IN [status |-> TableStatus(best[1]), daysRemaining |-> best[1],
        nearestExpiration |-> best[2]]

\* AppDetailsModal.getStatusBadge
getStatusBadge(daysUntilExpiration, isExpired) ==
    IF isExpired \/ daysUntilExpiration < 0 THEN "expired"
    ELSE IF daysUntilExpiration <= 15 THEN "expiring"
    ELSE "valid"

Badges(list) ==
    [k \in 1..Len(list) |-> getStatusBadge(list[k].daysUntilExpiration, list[k].isExpired)]

NoRow == [status |-> "none", daysRemaining |-> 0, nearestExpiration |-> 0]

\* the query has returned the applications that hold a credential
InitDashboard ==
    /\ \E passwords \in SeqsUpTo(PasswordCredentialsIn, MaxCreds),
          keys \in SeqsUpTo(KeyCredentialsIn, 1) :
        /\ Len(passwords) + Len(keys) > 0
        /\ dashboard = [pc |-> "loaded", app |-> ServedApplication(passwords, keys),
                        row |-> NoRow,
                        badges |-> [secrets |-> <<>>, certificates |-> <<>>]]
    /\ DataUnused
    /\ SchedulerUnused
    /\ MailUnused
    /\ FetchUnused
    /\ StartUnused
    /\ PagingUnused

\* AppTable renders: the row of the application
RenderTable ==
    /\ dashboard.pc = "loaded"
    /\ dashboard' = [dashboard EXCEPT !.pc = "table",
                                      !.row = applicationsWithStatus(dashboard.app)]
    /\ UNCHANGED <<dataVars, schedVars, mailVars, fetchVars, startVars, pagingVars>>

\* handleViewDetails: the dialog renders the badge of every credential
OpenDetails ==
    /\ dashboard.pc = "table"
    /\ dashboard' = [dashboard EXCEPT !.pc = "details",
                        !.badges = [secrets |-> Badges(dashboard.app.secrets),
                                    certificates |-> Badges(dashboard.app.certificates)]]
    /\ UNCHANGED <<dataVars, schedVars, mailVars, fetchVars, startVars, pagingVars>>

NextDashboard == RenderTable \/ OpenDetails

SpecDashboard == InitDashboard /\ [][NextDashboard]_vars

-----------------------------------------------------------------------------
(* Properties of the dashboard (SpecDashboard) *)

\* the table status and the credentials' badges agree on the credentials of
\* `kind` that expire nearest
AgreesOnNearest(kind) ==
    \A k \in 1..Len(dashboard.app[kind]) :
        LET c == dashboard.app[kind][k]
        IN c.daysUntilExpiration = dashboard.row.daysRemaining =>
            /\ dashboard.row.status = "expired" <=> c.isExpired
            /\ dashboard.pc = "details" =>
                dashboard.badges[kind][k] = dashboard.row.status

\* C30: the table shows an application as expired exactly when its
\* nearest-expiring credential has isExpired = true, daysUntilExpiration = 0
\* included, so that the status in the table and the badge of that credential
\* in the details dialog are the same.
C30_TableAgreesWithExpiredFlag ==
    dashboard.pc \in {"table", "details"} =>
        AgreesOnNearest("secrets") /\ AgreesOnNearest("certificates")

====
